---- MODULE Spec2Model ----
(***************************************************************************)
(* A model of the redis-rs server: the command dispatcher (cmd.rs), the    *)
(* string keyspace with lazy expiry (storage.rs), the streams keyed by the *)
(* textual id "ms-seq" (server.rs, cmd.rs), the per-connection transaction *)
(* buffer, the blocking XREAD waiters, and the leader's replication queue  *)
(* with its fan-out (replication_channel.rs, replication_client.rs).       *)
(*                                                                         *)
(* Strings that the code parses, formats or orders are sequences of byte   *)
(* codes; command verbs and literal reply texts are TLA+ strings.          *)
(***************************************************************************)
EXTENDS Integers, Sequences, FiniteSets, TLC

VARIABLES
    storage,    \* server -> (key -> [v, exp]): Storage.set, storage.rs:10
    streams,    \* server -> (stream key -> (id string -> field list)): server.rs:26
    offset,     \* server -> replication offset: server.rs:28
    blocker,    \* server -> list of registered waiters: server.rs:30
    wake,       \* connection -> signals pending in its waiter channel: cmd.rs:327
    chan,       \* the replication queue TX/RX: replication_channel.rs:10-18
    rx,         \* holder of the receiver mutex: replication_channel.rs:24-30
    attached,   \* the fan-out set of follower connections
    pc,         \* connection -> where its task stands
    cur,        \* connection -> the command being run and its frame
    queued,     \* connection -> the transaction buffer: cmd.rs:177
    exq,        \* connection -> the EXEC loop's position and results: cmd.rs:254-258
    out,        \* connection -> what the server wrote to its socket
    rd,         \* number of items of the follower link the follower consumed
    now,        \* the wall clock in milliseconds: storage.rs:14-18
    ncmd,       \* connection -> number of frames it sent
    codec,      \* a frame, its encoding and what decoding the encoding gave
    hs,         \* the follower's handshake: its peer, its step, the frames it
                \* wrote, the replies it read, the frames its peer has not read
    hist        \* history: the order of insertions and of writes, the bytes of
                \* the executed frames, the last frame and EXEC of a connection

vars == <<storage, streams, offset, blocker, wake, chan, rx, attached, pc, cur,
          queued, exq, out, rd, now, ncmd, codec, hs, hist>>

---------------------------------------------------------------------------
(* Bounds of the model *)

MaxCmds == 4        \* frames one connection sends
MaxClock == 12      \* the clock stops advancing here

(* Program constants *)

ClockStart == 10    \* the clock value at start-up (any u128 millisecond count)
ChanCap == 4096     \* mpsc::channel(4096)
ReadBuf == 512      \* let mut buf = [0; 512]

---------------------------------------------------------------------------
(* Strings as byte sequences *)

Dash == 45
Star == 42

\* u64::to_string / format!("{}", n)
RECURSIVE ToDec(_)
ToDec(n) == IF n < 10 THEN <<48 + n>> ELSE ToDec(n \div 10) \o <<48 + (n % 10)>>

IsNum(s) == Len(s) > 0 /\ \A i \in 1..Len(s) : s[i] \in 48..57

\* str::parse::<u64> on a string of digits
RECURSIVE ParseDec(_)
ParseDec(s) ==
    IF Len(s) = 0 THEN 0
    ELSE 10 * ParseDec(SubSeq(s, 1, Len(s) - 1)) + (s[Len(s)] - 48)

\* the order of String: bytewise lexicographic
RECURSIVE StrLt(_, _)
StrLt(a, b) ==
    IF Len(b) = 0 THEN FALSE
    ELSE IF Len(a) = 0 THEN TRUE
    ELSE IF a[1] # b[1] THEN a[1] < b[1]
    ELSE StrLt(Tail(a), Tail(b))

StrLe(a, b) == a = b \/ StrLt(a, b)

\* String::to_lowercase on ASCII
Lower(s) == [i \in 1..Len(s) |-> IF s[i] \in 65..90 THEN s[i] + 32 ELSE s[i]]

DashPos(s) ==
    IF \E i \in 1..Len(s) : s[i] = Dash
    THEN CHOOSE i \in 1..Len(s) : s[i] = Dash /\ \A j \in 1..(i - 1) : s[j] # Dash
    ELSE 0

\* format!("{}-{}", id, seq)
IdStr(ms, seq) == ToDec(ms) \o <<Dash>> \o ToDec(seq)

\* split_offset: (ms, seq, has_wildcard); a missing or "*" seq is a wildcard
\* whose seq starts at 1 for ms = 0 and at 0 otherwise
split_offset(o) ==
    LET d == DashPos(o)
        p1 == IF d = 0 THEN o ELSE SubSeq(o, 1, d - 1)
        p2 == IF d = 0 THEN <<>> ELSE SubSeq(o, d + 1, Len(o))
        id == ParseDec(p1)
    IN  IF d = 0 \/ p2 = <<Star>>
        THEN [id |-> id, seq |-> IF id = 0 THEN 1 ELSE 0, wild |-> TRUE]
        ELSE [id |-> id, seq |-> ParseDec(p2), wild |-> FALSE]

\* the numeric (ms, seq) order the ids are meant to have
IdLt(a, b) ==
    LET x == split_offset(a)
        y == split_offset(b)
    IN  x.id < y.id \/ (x.id = y.id /\ x.seq < y.seq)

---------------------------------------------------------------------------
(* Frames and replies *)

Lit(m) == [t |-> "simple", lit |-> m]     \* SimpleString of a literal text
Simple(s) == [t |-> "simple", s |-> s]    \* SimpleString of data
Bulk(s) == [t |-> "bulk", s |-> s]
Null == [t |-> "null"]
Arr(xs) == [t |-> "array", a |-> xs]
Fwd(fr, wid) == [t |-> "cmd", fr |-> fr, wid |-> wid]  \* a replicated command frame

DecLen(n) == Len(ToDec(n))

RECURSIVE SumLen(_)
SumLen(fr) ==
    IF Len(fr) = 0 THEN 0
    ELSE 1 + DecLen(Len(fr[1])) + 2 + Len(fr[1]) + 2 + SumLen(Tail(fr))

\* Protocol::encode(...).len() of an Array of BulkStrings
EncodeLen(fr) == 1 + DecLen(Len(fr)) + 2 + SumLen(fr)

---------------------------------------------------------------------------
(* The wire codec (protocol.rs), on byte sequences *)

CRLF == <<13, 10>>

\* str::find("\r\n"): the number of bytes before the first CR-LF, -1 for None
Find(b) ==
    LET hits == {i \in 1..(Len(b) - 1) : b[i] = 13 /\ b[i + 1] = 10}
    IN  IF hits = {} THEN -1
        ELSE (CHOOSE i \in hits : \A j \in hits : i <= j) - 1

\* &s[n..]
From(b, n) == SubSeq(b, n + 1, Len(b))

\* str::parse::<usize>: decimal digits, an optional leading '+'
IsUsize(s) == IsNum(s) \/ (Len(s) > 1 /\ s[1] = 43 /\ IsNum(Tail(s)))
ParseUsize(s) == IF s[1] = 43 THEN ParseDec(Tail(s)) ELSE ParseDec(s)

NoFrame == [ok |-> FALSE]

\* Protocol::encode
RECURSIVE encode(_)
RECURSIVE encode_all(_)
encode_all(xs) ==
    IF Len(xs) = 0 THEN <<>> ELSE encode(xs[1]) \o encode_all(Tail(xs))

encode(p) ==
    IF p.t = "simple" THEN <<43>> \o p.s \o CRLF
    ELSE IF p.t = "bulk" THEN <<36>> \o ToDec(Len(p.s)) \o CRLF \o p.s \o CRLF
    ELSE IF p.t = "array" THEN <<42>> \o ToDec(Len(p.a)) \o CRLF \o encode_all(p.a)
    ELSE <<36, 45, 49, 13, 10>>

\* Protocol::parse_simple_string_sfx
parse_simple_string_sfx(b) ==
    LET x == Find(b)
    IN  IF x < 0 THEN NoFrame
        ELSE [ok |-> TRUE, p |-> Simple(SubSeq(b, 1, x)), n |-> x + 2]

\* Protocol::parse_bulk_string_sfx: parse_usize and parse_string refuse the
\* empty text, the payload is lowercased
parse_bulk_string_sfx(b) ==
    LET len == Find(b)
    IN  IF len < 0 THEN NoFrame
        ELSE IF ~IsUsize(SubSeq(b, 1, len)) THEN NoFrame
        ELSE LET size == ParseUsize(SubSeq(b, 1, len))
                 data_len == Find(From(b, len + 2))
                 s == SubSeq(b, len + 3, len + 2 + data_len)
             IN  IF data_len < 0 THEN NoFrame
                 ELSE IF Len(s) = 0 THEN NoFrame
                 ELSE IF size # Len(s) THEN NoFrame
                 ELSE [ok |-> TRUE, p |-> Bulk(Lower(s)), n |-> len + 2 + data_len + 2]

RECURSIVE from(_)
RECURSIVE parse_items(_, _, _, _)

\* the loop of Protocol::parse_array_sfx
parse_items(s, off, k, vec) ==
    IF k = 0 THEN [ok |-> TRUE, p |-> Arr(vec), n |-> off]
    ELSE LET r == from(From(s, off))
         IN  IF ~r.ok THEN NoFrame
             ELSE parse_items(s, off + r.n, k - 1, Append(vec, r.p))

\* Protocol::parse_array_sfx
parse_array_sfx(s) ==
    LET x == Find(s)
    IN  IF x < 0 THEN NoFrame
        ELSE IF ~IsUsize(SubSeq(s, 1, x)) THEN NoFrame
        ELSE parse_items(s, x + 2, ParseUsize(SubSeq(s, 1, x)), <<>>)

\* Protocol::from
from(b) ==
    LET ret == IF Len(b) = 0 THEN NoFrame
               ELSE IF b[1] = 43 THEN parse_simple_string_sfx(Tail(b))
               ELSE IF b[1] = 36 THEN parse_bulk_string_sfx(Tail(b))
               ELSE IF b[1] = 42 THEN parse_array_sfx(Tail(b))
               ELSE NoFrame
    IN  IF ret.ok THEN [ret EXCEPT !.n = @ + 1] ELSE ret

---------------------------------------------------------------------------
(* Processes, connections, keys *)

Servers == {"master", "slave"}

\* c1, c2: clients of the leader; f1: the follower's connection to the leader;
\* s1: a client of the follower; rep: the follower's task on its replication link
Conns == {"c1", "c2", "f1", "s1", "rep"}

Owner(c) == IF c \in {"s1", "rep"} THEN "slave" ELSE "master"

\* Server::is_master: the role is fixed at start-up
is_master(sv) == sv = "master"

\* is_rep_conn: main.rs passes true on the follower's replication link only
is_rep_conn(c) == c = "rep"

S_px == <<112, 120>>
S_ex == <<101, 120>>
S_get == <<103, 101, 116>>
S_star == <<Star>>
S_block == <<98, 108, 111, 99, 107>>
S_streams == <<115, 116, 114, 101, 97, 109, 115>>
S_dir == <<100, 105, 114>>
S_dbfilename == <<100, 98, 102, 105, 108, 101, 110, 97, 109, 101>>
S_replication == <<114, 101, 112, 108, 105, 99, 97, 116, 105, 111, 110>>
S_getack == <<103, 101, 116, 97, 99, 107>>
S_1 == <<49>>
S_minus == <<Dash>>
S_plus == <<43>>
\* u64::MAX.to_string() and (u64::MAX - 1).to_string()
S_u64max == <<49,56,52,52,54,55,52,52,48,55,51,55,48,57,53,53,49,54,49,53>>
S_u64max1 == <<49,56,52,52,54,55,52,52,48,55,51,55,48,57,53,53,49,54,49,52>>

---------------------------------------------------------------------------
(* Cmd::from: the decoded frame (bulk strings lowercased) and the command *)

Decode(fr) == [i \in 1..Len(fr) |-> IF i = 1 THEN fr[1] ELSE Lower(fr[i])]

RECURSIVE Pairs(_, _)
Pairs(a, i) ==
    IF i < Len(a) THEN <<<<a[i], a[i + 1]>>>> \o Pairs(a, i + 2) ELSE <<>>

BadCmd == [ok |-> FALSE]

CmdFrom(raw) ==
    LET a == Decode(raw)
        n == Len(a)
        v == IF n = 0 THEN "" ELSE a[1]
    IN  IF n = 0 THEN BadCmd
        ELSE IF v = "echo" THEN
            IF n < 2 THEN BadCmd ELSE [ok |-> TRUE, name |-> "Echo", s |-> a[2], fr |-> a]
        ELSE IF v = "ping" THEN [ok |-> TRUE, name |-> "Ping", fr |-> a]
        ELSE IF v = "get" THEN
            IF n < 2 THEN BadCmd ELSE [ok |-> TRUE, name |-> "Get", k |-> a[2], fr |-> a]
        ELSE IF v = "set" THEN
            IF n = 5 /\ a[4] = S_px THEN
                IF IsNum(a[5])
                THEN [ok |-> TRUE, name |-> "SetPx", k |-> a[2], v |-> a[3],
                      x |-> ParseDec(a[5]), fr |-> a]
                ELSE BadCmd
            ELSE IF n = 5 /\ a[4] = S_ex THEN
                IF IsNum(a[5])
                THEN [ok |-> TRUE, name |-> "SetEx", k |-> a[2], v |-> a[3],
                      x |-> ParseDec(a[5]), fr |-> a]
                ELSE BadCmd
            ELSE IF n = 3 THEN [ok |-> TRUE, name |-> "Set", k |-> a[2], v |-> a[3], fr |-> a]
            ELSE BadCmd
        ELSE IF v = "config" THEN
            IF n # 3 \/ a[2] # S_get THEN BadCmd
            ELSE [ok |-> TRUE, name |-> "ConfigGet", s |-> a[3], fr |-> a]
        ELSE IF v = "keys" THEN
            IF n # 2 \/ a[2] # S_star THEN BadCmd
            ELSE [ok |-> TRUE, name |-> "Keys", fr |-> a]
        ELSE IF v = "info" THEN
            [ok |-> TRUE, name |-> "Info", sec |-> IF n = 2 THEN <<a[2]>> ELSE <<>>, fr |-> a]
        ELSE IF v = "replconf" THEN
            IF n < 3 THEN BadCmd
            ELSE [ok |-> TRUE, name |-> "Replconf", s |-> a[2], fr |-> a]
        ELSE IF v = "psync" THEN
            IF n # 3 THEN BadCmd ELSE [ok |-> TRUE, name |-> "Psync", fr |-> a]
        ELSE IF v = "del" THEN
            IF n # 2 THEN BadCmd ELSE [ok |-> TRUE, name |-> "Del", k |-> a[2], fr |-> a]
        ELSE IF v = "type" THEN
            IF n # 2 THEN BadCmd ELSE [ok |-> TRUE, name |-> "Type", k |-> a[2], fr |-> a]
        ELSE IF v = "xadd" THEN
            IF n < 5 THEN BadCmd
            ELSE [ok |-> TRUE, name |-> "Xadd", k |-> a[2], id |-> a[3],
                  kv |-> Pairs(a, 4), fr |-> a]
        ELSE IF v = "xrange" THEN
            IF n # 4 THEN BadCmd
            ELSE [ok |-> TRUE, name |-> "Xrange", k |-> a[2], lo |-> a[3], hi |-> a[4], fr |-> a]
        ELSE IF v = "xread" THEN
            IF n < 4 \/ n % 2 # 0 THEN BadCmd
            ELSE IF a[2] = S_block THEN
                IF IsNum(a[3])
                THEN LET c2 == SubSeq(a, 5, n)
                         l2 == Len(c2) \div 2
                     IN  [ok |-> TRUE, name |-> "Xread", ks |-> SubSeq(c2, 1, l2),
                          ids |-> SubSeq(c2, l2 + 1, Len(c2)), block |-> ParseDec(a[3]),
                          fr |-> a]
                ELSE BadCmd
            ELSE LET c2 == SubSeq(a, 3, n)
                     l2 == Len(c2) \div 2
                 IN  [ok |-> TRUE, name |-> "Xread", ks |-> SubSeq(c2, 1, l2),
                      ids |-> SubSeq(c2, l2 + 1, Len(c2)), block |-> -1, fr |-> a]
        ELSE IF v = "incr" THEN
            IF n # 2 THEN BadCmd ELSE [ok |-> TRUE, name |-> "Incr", k |-> a[2], fr |-> a]
        ELSE IF v = "multi" THEN
            IF n # 1 THEN BadCmd ELSE [ok |-> TRUE, name |-> "Multi", fr |-> a]
        ELSE IF v = "exec" THEN
            IF n # 1 THEN BadCmd ELSE [ok |-> TRUE, name |-> "Exec", fr |-> a]
        ELSE IF v = "discard" THEN [ok |-> TRUE, name |-> "Discard", fr |-> a]
        ELSE [ok |-> TRUE, name |-> "Unknow", fr |-> a]

---------------------------------------------------------------------------
(* Storage: the string keyspace *)

NoExp == -1

Put(m, k, e) == [x \in (DOMAIN m) \cup {k} |-> IF x = k THEN e ELSE m[x]]
Drop(m, k) == [x \in (DOMAIN m) \ {k} |-> m[x]]

\* Storage::get: an entry whose deadline is before the clock is removed
storage_get(m, k, t) ==
    IF k \notin DOMAIN m THEN [m |-> m, some |-> FALSE, v |-> <<>>]
    ELSE IF m[k].exp # NoExp /\ t > m[k].exp
         THEN [m |-> Drop(m, k), some |-> FALSE, v |-> <<>>]
         ELSE [m |-> m, some |-> TRUE, v |-> m[k].v]

storage_set(m, k, v) == Put(m, k, [v |-> v, exp |-> NoExp])

\* a setx that takes the ttl for the deadline
storage_setx_absolute(m, k, v, expire_ms, t) == Put(m, k, [v |-> v, exp |-> expire_ms])

storage_setx(m, k, v, expire_ms, t) == Put(m, k, [v |-> v, exp |-> expire_ms + t])

storage_del(m, k) == Drop(m, k)

storage_keys(m) == DOMAIN m

---------------------------------------------------------------------------
(* Streams: BTreeMap<String, Vec<(String, String)>> per stream key *)

\* BTreeMap::last_key_value: the greatest key in the order of String
LastKey(s) == CHOOSE a \in DOMAIN s : \A b \in DOMAIN s : StrLe(b, a)

\* BTreeMap::range((Included(lo), Included(hi))): the keys in String order
RECURSIVE SortKeys(_)
SortKeys(ks) ==
    IF ks = {} THEN <<>>
    ELSE LET m == CHOOSE a \in ks : \A b \in ks : StrLe(a, b)
         IN  <<m>> \o SortKeys(ks \ {m})

RangeKeys(s, lo, hi) == SortKeys({a \in DOMAIN s : StrLe(lo, a) /\ StrLe(a, hi)})

ErrZero == "ERR The ID specified in XADD must be greater than 0-0"
ErrSmall == "ERR The ID specified in XADD is equal or smaller than the target stream top item"

\* xadd_cmd up to the release of the streams lock (cmd.rs:428-463).
\* req is the id as the reply carries it: `offset` of the outer scope.
xadd_insert(strs, key, id0, kv, t) ==
    LET req == IF id0 = S_star THEN ToDec(t) \o <<Dash, Star>> ELSE id0
        o == split_offset(req)
    IN  IF o.id = 0 /\ o.seq = 0 /\ ~o.wild
        THEN [strs |-> strs, ok |-> FALSE, err |-> ErrZero, req |-> req, id |-> <<>>]
        ELSE
        LET s0 == IF key \in DOMAIN strs THEN strs[key] ELSE << >>
            strs1 == Put(strs, key, s0)
            hasLast == DOMAIN s0 # {}
            l == IF hasLast THEN split_offset(LastKey(s0)) ELSE o
            reject == hasLast /\ (l.id > o.id \/ (l.id = o.id /\ l.seq >= o.seq /\ ~o.wild))
            seq == IF hasLast /\ l.id = o.id /\ l.seq >= o.seq /\ o.wild
                   THEN l.seq + 1 ELSE o.seq
            id == IdStr(o.id, seq)
            old == IF id \in DOMAIN s0 THEN s0[id] ELSE <<>>
        IN  IF reject
            THEN [strs |-> strs1, ok |-> FALSE, err |-> ErrSmall, req |-> req, id |-> <<>>]
            ELSE [strs |-> Put(strs, key, Put(s0, id, old \o kv)), ok |-> TRUE,
                  err |-> "", req |-> req, id |-> id]

RECURSIVE EntryList(_, _)
EntryList(s, ks) ==
    IF Len(ks) = 0 THEN <<>>
    ELSE <<Bulk(ks[1]), Arr(s[ks[1]])>> \o EntryList(s, Tail(ks))

\* xrange_cmd: "-" is "0", "+" is u64::MAX, compared as strings
xrange(strs, key, lo, hi) ==
    IF key \notin DOMAIN strs THEN Lit("none")
    ELSE LET start == IF lo = S_minus THEN <<48>> ELSE lo
             end == IF hi = S_plus THEN S_u64max ELSE hi
         IN  Arr(EntryList(strs[key], RangeKeys(strs[key], start, end)))

\* xread_cmd after any wait (cmd.rs:338-363)
RECURSIVE xread(_, _, _, _)
xread(strs, ks, ids, i) ==
    IF i > Len(ks) THEN <<>>
    ELSE IF ks[i] \notin DOMAIN strs THEN xread(strs, ks, ids, i + 1)
    ELSE LET o == split_offset(ids[i])
             start == IdStr(o.id, o.seq + 1)
             hi == S_u64max1 \o <<Dash, 48>>
         IN  <<Bulk(ks[i]), Arr(EntryList(strs[ks[i]], RangeKeys(strs[ks[i]], start, hi)))>>
             \o xread(strs, ks, ids, i + 1)

---------------------------------------------------------------------------
(* The state as one record, so that a handler is a function of the state *)

S == [storage |-> storage, streams |-> streams, offset |-> offset,
      blocker |-> blocker, wake |-> wake, chan |-> chan, rx |-> rx,
      attached |-> attached, pc |-> pc, cur |-> cur, queued |-> queued,
      exq |-> exq, out |-> out, rd |-> rd, now |-> now, ncmd |-> ncmd,
      codec |-> codec, hs |-> hs, hist |-> hist]

Becomes(st) ==
    /\ storage' = st.storage /\ streams' = st.streams /\ offset' = st.offset
    /\ blocker' = st.blocker /\ wake' = st.wake /\ chan' = st.chan /\ rx' = st.rx
    /\ attached' = st.attached /\ pc' = st.pc /\ cur' = st.cur
    /\ queued' = st.queued /\ exq' = st.exq /\ out' = st.out /\ rd' = st.rd
    /\ now' = st.now /\ ncmd' = st.ncmd /\ codec' = st.codec /\ hs' = st.hs
    /\ hist' = st.hist

NoQueue == [open |-> FALSE, buf |-> <<>>]      \* queued_cmd = None
NoExec == [on |-> FALSE, i |-> 0, res |-> <<>>, cmd |-> BadCmd]
NoEx == [on |-> FALSE, buf |-> <<>>, ran |-> <<>>]
Snap(st, sv) == [storage |-> st.storage[sv], streams |-> st.streams[sv],
                 blocker |-> st.blocker[sv]]

NoCodec == [st |-> "none"]

\* the state after construction (Server::new, main.rs)
Start ==
    [storage |-> [sv \in Servers |-> << >>],
     streams |-> [sv \in Servers |-> << >>],
     offset |-> [sv \in Servers |-> 0],
     blocker |-> [sv \in Servers |-> <<>>],
     wake |-> [c \in Conns |-> 0],
     chan |-> <<>>,
     rx |-> "none",
     attached |-> {},
     pc |-> [c \in Conns |-> "idle"],
     cur |-> [c \in Conns |-> [cmd |-> BadCmd, res |-> Null, wid |-> 0,
                               pre |-> [storage |-> << >>, streams |-> << >>,
                                        blocker |-> <<>>]]],
     queued |-> [c \in Conns |-> NoQueue],
     exq |-> [c \in Conns |-> NoExec],
     out |-> [c \in Conns |-> <<>>],
     rd |-> 0,
     now |-> ClockStart,
     ncmd |-> [c \in Conns |-> 0],
     codec |-> NoCodec,
     hs |-> [peer |-> "none", step |-> "off", sent |-> <<>>, got |-> <<>>,
             inbox |-> <<>>],
     hist |-> [xlog |-> <<>>, wseq |-> 0, enq |-> <<>>,
               bytes |-> [sv \in Servers |-> 0],
               last |-> [c \in Conns |-> BadCmd],
               ex |-> [c \in Conns |-> NoEx],
               att |-> [c \in Conns |-> -1],
               full |-> [c \in Conns |-> -1],
               mut |-> {},
               sig |-> [c \in Conns |-> 0],
               wr |-> [sv \in Servers |-> << >>],
               sent |-> [c \in Conns |-> <<>>],
               done |-> [c \in Conns |-> <<>>],
               boot |-> [on |-> FALSE]]]

\* the variables hold the state st
Is(st) ==
    /\ storage = st.storage /\ streams = st.streams /\ offset = st.offset
    /\ blocker = st.blocker /\ wake = st.wake /\ chan = st.chan /\ rx = st.rx
    /\ attached = st.attached /\ pc = st.pc /\ cur = st.cur
    /\ queued = st.queued /\ exq = st.exq /\ out = st.out /\ rd = st.rd
    /\ now = st.now /\ ncmd = st.ncmd /\ codec = st.codec /\ hs = st.hs
    /\ hist = st.hist

Init == Is(Start)

---------------------------------------------------------------------------
(* Server::handle after Cmd::run returned (server.rs:116-133) *)

\* the reply is written on a client connection only; a PSYNC on the leader
\* goes on to send the snapshot
Reply(st, c, res, cmd) ==
    LET st1 == IF is_rep_conn(c) THEN st
               ELSE [st EXCEPT !.out[c] = Append(@, res),
                               !.hist.done[c] = Append(@, cmd.fr)]
    IN  [st1 EXCEPT !.pc[c] = IF is_master(Owner(c)) /\ cmd.name = "Psync"
                              THEN "psync" ELSE "idle"]

\* Cmd::from or Cmd::run returned Err: handle returns; a client connection is
\* closed, the follower's replication task calls handle again (main.rs:69-81)
Fail(st, c) ==
    [st EXCEPT !.pc[c] = IF is_rep_conn(c) THEN "idle" ELSE "closed",
               !.exq[c] = NoExec,
               !.queued[c] = IF is_rep_conn(c) THEN NoQueue ELSE @]

\* the tail of Cmd::run on Ok (cmd.rs:238-244), and, inside EXEC, the rest
\* of exec_cmd's loop body (cmd.rs:256-260)
Finish(st, c, res) ==
    LET sv == Owner(c)
        L == EncodeLen(st.cur[c].cmd.fr)
        st1 == [st EXCEPT !.offset[sv] = @ + L, !.hist.bytes[sv] = @ + L]
        e == st.exq[c]
    IN  IF e.on
        THEN IF e.i > Len(st.queued[c].buf)
             THEN LET LE == EncodeLen(e.cmd.fr)
                  IN  Reply([st1 EXCEPT !.exq[c] = NoExec, !.queued[c] = NoQueue,
                                        !.offset[sv] = @ + LE,
                                        !.hist.bytes[sv] = @ + LE],
                            c, Arr(Append(e.res, res)), e.cmd)
             ELSE [st1 EXCEPT !.exq[c].res = Append(@, res), !.pc[c] = "exec"]
        ELSE Reply(st1, c, res, st.cur[c].cmd)

\* history: the time, the ttl in ms (NoExp for none) and the value of the
\* last write of a string key, as the command states them
Noted(w, cmd, t) ==
    IF cmd.name = "Set" THEN Put(w, cmd.k, [T |-> t, ttl |-> NoExp, v |-> cmd.v])
    ELSE IF cmd.name = "SetPx" THEN Put(w, cmd.k, [T |-> t, ttl |-> cmd.x, v |-> cmd.v])
    ELSE IF cmd.name = "SetEx" THEN Put(w, cmd.k, [T |-> t, ttl |-> 1000 * cmd.x, v |-> cmd.v])
    ELSE IF cmd.name = "Del" THEN Drop(w, cmd.k)
    ELSE w

\* a write has been applied to the store: resp_and_replicate comes next
Written(st, c, res) ==
    LET m == is_master(Owner(c))
    IN  [st EXCEPT !.cur[c].res = res,
                   !.hist.wr[Owner(c)] = Noted(@, st.cur[c].cmd, st.now),
                   !.cur[c].wid = IF m THEN st.hist.wseq + 1 ELSE 0,
                   !.hist.wseq = IF m THEN @ + 1 ELSE @,
                   !.hist.mut = IF m /\ st.attached # {} THEN @ \cup {st.cur[c].cmd.k} ELSE @,
                   !.pc[c] = "repl"]

---------------------------------------------------------------------------
(* The commands (cmd.rs) *)

get_cmd(st, c, cmd) ==
    LET sv == Owner(c)
        g == storage_get(st.storage[sv], cmd.k, st.now)
    IN  Finish([st EXCEPT !.storage[sv] = g.m], c,
               IF g.some THEN Simple(g.v) ELSE Null)

set_cmd(st, c, cmd) ==
    LET sv == Owner(c)
    IN  Written([st EXCEPT !.storage[sv] = storage_set(@, cmd.k, cmd.v),
                           !.offset[sv] = @ + 1], c, Lit("ok"))

set_px_cmd(st, c, cmd) ==
    LET sv == Owner(c)
    IN  Written([st EXCEPT !.storage[sv] = storage_setx(@, cmd.k, cmd.v, cmd.x, st.now),
                           !.offset[sv] = @ + 1], c, Lit("ok"))

set_ex_cmd(st, c, cmd) ==
    LET sv == Owner(c)
    IN  Written([st EXCEPT !.storage[sv] =
                               storage_setx(@, cmd.k, cmd.v, cmd.x * 1000, st.now),
                           !.offset[sv] = @ + 1], c, Lit("ok"))

del_cmd(st, c, cmd) ==
    LET sv == Owner(c)
    IN  Written([st EXCEPT !.storage[sv] = storage_del(@, cmd.k),
                           !.offset[sv] = @ + 1], c, Lit("ok"))

incr_cmd(st, c, cmd) ==
    LET sv == Owner(c)
        g == storage_get(st.storage[sv], cmd.k, st.now)
        v == IF g.some THEN g.v ELSE S_1
    IN  IF IsNum(v)
        THEN LET w == ToDec(ParseDec(v) + 1)
             IN  Finish([st EXCEPT !.storage[sv] = storage_set(g.m, cmd.k, w),
                                   !.hist.wr[sv] = Put(@, cmd.k, [T |-> st.now, ttl |-> NoExp,
                                                                  v |-> w]),
                                   !.hist.mut = IF is_master(sv) /\ st.attached # {}
                                                THEN @ \cup {cmd.k} ELSE @],
                        c, Simple(w))
        ELSE Finish([st EXCEPT !.storage[sv] = g.m], c,
                    Lit("ERR value is not an integer or out of range"))

config_get_cmd(st, c, cmd) ==
    IF cmd.s = S_dir
    THEN Finish(st, c, Arr(<<Bulk(cmd.s), [t |-> "bulk", lit |-> "option.dir"]>>))
    ELSE IF cmd.s = S_dbfilename
    THEN Finish(st, c, Arr(<<Bulk(cmd.s), [t |-> "bulk", lit |-> "option.db_file_name"]>>))
    ELSE Fail(st, c)

keys_cmd(st, c, cmd) ==
    Finish(st, c, [t |-> "keys", set |-> storage_keys(st.storage[Owner(c)])])

info_cmd(st, c, cmd) ==
    IF cmd.sec = <<>> THEN Finish(st, c, [t |-> "bulk", lit |-> "default"])
    ELSE IF cmd.sec[1] = S_replication
    THEN Finish(st, c, [t |-> "bulk", lit |-> "role master_replid master_repl_offset"])
    ELSE Fail(st, c)

replconf_cmd(st, c, cmd) ==
    IF cmd.s = S_getack
    THEN Finish(st, c, Arr(<<[t |-> "bulk", lit |-> "REPLCONF"], [t |-> "bulk", lit |-> "ACK"],
                             Bulk(ToDec(st.offset[Owner(c)]))>>))
    ELSE Finish(st, c, Lit("OK"))

\* option.replication.master_replid (main.rs:53)
master_replid ==
    <<56, 51, 55, 49, 98, 52, 102, 98, 49, 49, 53, 53, 98, 55, 49, 102, 52, 97, 48, 52,
      100, 51, 101, 49, 98, 99, 51, 101, 49, 56, 99, 52, 97, 57, 57, 48, 97, 101, 101, 97>>

S_FULLRESYNC == <<70, 85, 76, 76, 82, 69, 83, 89, 78, 67>>

\* format!("FULLRESYNC {} 0", master_replid)
FullResync == Simple(S_FULLRESYNC \o <<32>> \o master_replid \o <<32, 48>>)

\* history: the number of writes the leader has accepted when it answers
psync_cmd(st, c, cmd) ==
    IF is_master(Owner(c))
    THEN Finish([st EXCEPT !.hist.full[c] = st.hist.wseq], c, FullResync)
    ELSE Finish(st, c, Lit("PSYNC ON SLAVE IS NOT ALLOWED"))

type_cmd(st, c, cmd) ==
    LET sv == Owner(c)
        g == storage_get(st.storage[sv], cmd.k, st.now)
        st1 == [st EXCEPT !.storage[sv] = g.m]
    IN  IF g.some THEN Finish(st1, c, Lit("string"))
        ELSE IF cmd.k \in DOMAIN st.streams[sv] THEN Finish(st1, c, Lit("stream"))
        ELSE Finish(st1, c, Lit("none"))

\* a panic unwinds the connection's task: nothing more is read or written
Panic(st, c) == [st EXCEPT !.pc[c] = "closed", !.exq[c] = NoExec]

\* BTreeMap::range panics when its start is above its end
xrange_panics(strs, key, lo, hi) ==
    /\ key \in DOMAIN strs
    /\ StrLt(IF hi = S_plus THEN S_u64max ELSE hi, IF lo = S_minus THEN <<48>> ELSE lo)

xread_panics(strs, ks, ids) ==
    \E i \in 1..Len(ks) :
        /\ ks[i] \in DOMAIN strs
        /\ StrLt(S_u64max1 \o <<Dash, 48>>,
                 IdStr(split_offset(ids[i]).id, split_offset(ids[i]).seq + 1))

\* an XRANGE that looks its stream up as XADD does, creating it when missing
xrange_creates_key(st, c, cmd) ==
    IF xrange_panics(st.streams[Owner(c)], cmd.k, cmd.lo, cmd.hi) THEN Panic(st, c)
    ELSE Finish([st EXCEPT !.streams[Owner(c)] =
                               IF cmd.k \in DOMAIN @ THEN @ ELSE Put(@, cmd.k, << >>)],
                c, xrange(st.streams[Owner(c)], cmd.k, cmd.lo, cmd.hi))

xrange_cmd(st, c, cmd) ==
    IF xrange_panics(st.streams[Owner(c)], cmd.k, cmd.lo, cmd.hi) THEN Panic(st, c)
    ELSE Finish(st, c, xrange(st.streams[Owner(c)], cmd.k, cmd.lo, cmd.hi))

\* xread_cmd: BLOCK 0 registers a waiter, BLOCK n sleeps, otherwise it reads
xread_cmd(st, c, cmd) ==
    LET sv == Owner(c)
    IN  IF cmd.block = 0
        THEN [st EXCEPT !.blocker[sv] = Append(@, c), !.pc[c] = "wait"]
        ELSE IF cmd.block > 0 THEN [st EXCEPT !.pc[c] = "sleep"]
        ELSE IF xread_panics(st.streams[sv], cmd.ks, cmd.ids) THEN Panic(st, c)
        ELSE Finish(st, c, Arr(xread(st.streams[sv], cmd.ks, cmd.ids, 1)))

\* xadd_cmd under the streams lock (cmd.rs:428-463)
xadd_cmd(st, c, cmd) ==
    LET sv == Owner(c)
        r == xadd_insert(st.streams[sv], cmd.k, cmd.id, cmd.kv, st.now)
        st1 == [st EXCEPT !.streams[sv] = r.strs]
    IN  IF ~r.ok THEN Finish(st1, c, Lit(r.err))
        ELSE [Written([st1 EXCEPT !.hist.xlog = Append(@, <<sv, cmd.k, r.id>>)],
                      c, Bulk(r.req))
              EXCEPT !.pc[c] = "signal"]

WaiterCap == 4      \* mpsc::channel(4) of a waiter

\* xadd_cmd under the waiter lock (cmd.rs:464-470): one signal to every
\* registered waiter, then the list is cleared
RECURSIVE SignalAll(_, _)
SignalAll(w, l) ==
    IF Len(l) = 0 THEN w
    ELSE SignalAll([w EXCEPT ![l[1]] = @ + 1], Tail(l))

\* a signalling loop that stops after the first waiter
xadd_signal_first_only(st, c) ==
    LET sv == Owner(c)
        l == IF Len(st.blocker[sv]) = 0 THEN <<>> ELSE <<st.blocker[sv][1]>>
    IN  [st EXCEPT !.wake = SignalAll(@, l),
                   !.hist.sig = SignalAll(@, l),
                   !.blocker[sv] = <<>>,
                   !.pc[c] = "repl"]

xadd_signal(st, c) ==
    LET sv == Owner(c)
    IN  [st EXCEPT !.wake = SignalAll(@, st.blocker[sv]),
                   !.hist.sig = SignalAll(@, st.blocker[sv]),
                   !.blocker[sv] = <<>>,
                   !.pc[c] = "repl"]

\* MasterReplicationClient::store_command: the frame goes on the queue
store_command(st, fr, wid) ==
    [st EXCEPT !.chan = Append(@, [fr |-> fr, wid |-> wid]),
               !.hist.enq = Append(@, wid)]

\* resp_and_replicate: on the leader the frame is put on the replication
\* queue and the reply follows; on a follower a client gets the refusal
resp_and_replicate(st, c) ==
    LET sv == Owner(c)
        k == st.cur[c]
    IN  IF is_master(sv) THEN Finish(store_command(st, k.cmd.fr, k.wid), c, k.res)
        ELSE IF ~is_rep_conn(c) THEN Finish(st, c, Lit("DISALLOW WRITE ON SLAVE"))
        ELSE Finish(st, c, k.res)

\* a MULTI that opens the buffer of every connection of the server
multi_opens_all(st, c, cmd) ==
    Finish([st EXCEPT !.queued = [d \in Conns |->
                                     IF d = c \/ (Owner(d) = Owner(c) /\ ~@[d].open)
                                     THEN [open |-> TRUE, buf |-> <<>>] ELSE @[d]]],
           c, Lit("ok"))

multi_cmd(st, c, cmd) ==
    Finish([st EXCEPT !.queued[c] = [open |-> TRUE, buf |-> <<>>]], c, Lit("ok"))

\* a DISCARD that answers but keeps the buffer
discard_keeps_buffer(st, c, cmd) ==
    IF st.queued[c].open
    THEN Finish(st, c, Lit("ok"))
    ELSE Finish(st, c, Lit("ERR Discard without MULTI"))

discard_cmd(st, c, cmd) ==
    IF st.queued[c].open
    THEN Finish([st EXCEPT !.queued[c] = NoQueue], c, Lit("ok"))
    ELSE Finish(st, c, Lit("ERR Discard without MULTI"))

\* the match of Cmd::run (cmd.rs:192-237), and exec_cmd up to the first
\* queued command (cmd.rs:248-264)
RECURSIVE Begin(_, _, _)
Begin(st0, c, cmd) ==
    LET st == [st0 EXCEPT !.cur[c] = [cmd |-> cmd, res |-> Null, wid |-> 0,
                                      pre |-> Snap(st0, Owner(c))],
                          !.hist.ex[c].ran =
                              IF st0.exq[c].on THEN Append(@, cmd.fr) ELSE @]
        n == cmd.name
    IN  CASE n = "Ping" -> Finish(st, c, Lit("PONG"))
          [] n = "Echo" -> Finish(st, c, Simple(cmd.s))
          [] n = "Get" -> get_cmd(st, c, cmd)
          [] n = "Set" -> set_cmd(st, c, cmd)
          [] n = "SetPx" -> set_px_cmd(st, c, cmd)
          [] n = "SetEx" -> set_ex_cmd(st, c, cmd)
          [] n = "Del" -> del_cmd(st, c, cmd)
          [] n = "ConfigGet" -> config_get_cmd(st, c, cmd)
          [] n = "Keys" -> keys_cmd(st, c, cmd)
          [] n = "Info" -> info_cmd(st, c, cmd)
          [] n = "Replconf" -> replconf_cmd(st, c, cmd)
          [] n = "Psync" -> psync_cmd(st, c, cmd)
          [] n = "Type" -> type_cmd(st, c, cmd)
          [] n = "Xadd" -> xadd_cmd(st, c, cmd)
          [] n = "Xrange" -> xrange_cmd(st, c, cmd)
          [] n = "Xread" -> xread_cmd(st, c, cmd)
          [] n = "Incr" -> incr_cmd(st, c, cmd)
          [] n = "Multi" -> multi_cmd(st, c, cmd)
          [] n = "Exec" ->
                IF ~st.queued[c].open THEN Finish(st, c, Lit("ERR EXEC without MULTI"))
                ELSE IF Len(st.queued[c].buf) = 0
                THEN Finish([st EXCEPT !.queued[c] = NoQueue], c, Arr(<<>>))
                ELSE Begin([st EXCEPT !.exq[c] = [on |-> TRUE, i |-> 2, res |-> <<>>,
                                                  cmd |-> cmd]],
                           c, st.queued[c].buf[1])
          [] n = "Discard" -> discard_cmd(st, c, cmd)
          [] OTHER -> Finish(st, c, Lit("unknow cmd"))

\* exec_cmd's loop goes on to the next queued command (cmd.rs:255-256)
exec_next(st, c) ==
    LET e == st.exq[c]
    IN  Begin([st EXCEPT !.exq[c].i = e.i + 1], c, st.queued[c].buf[e.i])

IsTxnCmd(cmd) == cmd.name \in {"Exec", "Multi", "Discard"}

\* a dispatcher that buffers only the commands that write
run_queues_writes_only(st, c, cmd) ==
    IF st.queued[c].open /\ ~IsTxnCmd(cmd) /\ cmd.name # "Get"
    THEN Reply([st EXCEPT !.queued[c].buf = Append(@, cmd),
                          !.cur[c] = [cmd |-> cmd, res |-> Null, wid |-> 0,
                                      pre |-> Snap(st, Owner(c))]],
               c, Lit("QUEUED"), cmd)
    ELSE Begin(st, c, cmd)

\* the head of Cmd::run (cmd.rs:181-191): inside a transaction every other
\* command is buffered and answered QUEUED
run(st, c, cmd) ==
    IF st.queued[c].open /\ ~IsTxnCmd(cmd)
    THEN Reply([st EXCEPT !.queued[c].buf = Append(@, cmd),
                          !.cur[c] = [cmd |-> cmd, res |-> Null, wid |-> 0,
                                      pre |-> Snap(st, Owner(c))]],
               c, Lit("QUEUED"), cmd)
    ELSE Begin(st, c, cmd)

\* Cmd::from panics, it does not return Err: cmd[1] of a one-word ECHO or GET
\* (cmd.rs:43, 45), parse().unwrap() of the time of SET .. PX/EX (cmd.rs:48, 50)
from_panics(raw) ==
    LET a == Decode(raw)
        n == Len(a)
    IN  /\ n > 0
        /\ \/ a[1] \in {"echo", "get"} /\ n < 2
           \/ a[1] = "set" /\ n = 5 /\ a[4] \in {S_px, S_ex} /\ ~IsNum(a[5])

RECURSIVE Frames(_)
Frames(buf) == IF Len(buf) = 0 THEN <<>> ELSE <<buf[1].fr>> \o Frames(Tail(buf))

\* Server::handle on one frame (server.rs:112-116)
handle(st, c, raw) ==
    LET cmd == CmdFrom(raw)
        st1 == [st EXCEPT !.ncmd[c] = @ + 1,
                          !.hist.last[c] = cmd,
                          !.hist.sent[c] = Append(@, Decode(raw)),
                          !.hist.ex[c] =
                              IF cmd.ok /\ cmd.name = "Exec" /\ st.queued[c].open
                              THEN [on |-> TRUE, buf |-> Frames(st.queued[c].buf),
                                    ran |-> <<>>]
                              ELSE NoEx]
    IN  IF from_panics(raw) THEN Panic(st1, c)
        ELSE IF ~cmd.ok THEN Fail(st1, c)
        ELSE run(st1, c, cmd)

RECURSIVE DecodeAll(_)
DecodeAll(raws) ==
    IF Len(raws) = 0 THEN <<>> ELSE <<Decode(raws[1])>> \o DecodeAll(Tail(raws))

\* Server::handle on one read that holds several frames (server.rs:105-113):
\* Cmd::from parses the first frame of the buffer and the rest of the buffer
\* is not looked at; the next read overwrites it
handle_buf(st, c, raws) ==
    LET st1 == handle(st, c, raws[1])
    IN  [st1 EXCEPT !.ncmd[c] = @ + Len(raws) - 1,
                    !.hist.sent[c] = @ \o DecodeAll(Tail(raws))]

\* the wait of XREAD BLOCK 0 (cmd.rs:332-335): a signal is taken and the loop
\* waits for the next one; it ends only when every sender is gone, and the
\* task itself holds one (cmd.rs:327)
xread_wake(st, c) == [st EXCEPT !.wake[c] = @ - 1]

\* xread_cmd after its sleep (cmd.rs:325, 338-363)
xread_read(st, c) ==
    LET cmd == st.cur[c].cmd
    IN  IF xread_panics(st.streams[Owner(c)], cmd.ks, cmd.ids) THEN Panic(st, c)
        ELSE Finish(st, c, Arr(xread(st.streams[Owner(c)], cmd.ks, cmd.ids, 1)))

\* the text of EMPTY_RDB_FILE_HEX_STRING (replication_client.rs:11)
EMPTY_RDB_FILE_HEX_STRING ==
    <<53, 50, 52, 53, 52, 52, 52, 57, 53, 51, 51, 48, 51, 48, 51, 49, 51, 49, 102, 97, 48, 57,
       55, 50, 54, 53, 54, 52, 54, 57, 55, 51, 50, 100, 55, 54, 54, 53, 55, 50, 48, 53, 51, 55,
       50, 101, 51, 50, 50, 101, 51, 48, 102, 97, 48, 97, 55, 50, 54, 53, 54, 52, 54, 57, 55, 51,
       50, 100, 54, 50, 54, 57, 55, 52, 55, 51, 99, 48, 52, 48, 102, 97, 48, 53, 54, 51, 55, 52,
       54, 57, 54, 100, 54, 53, 99, 50, 54, 100, 48, 56, 98, 99, 54, 53, 102, 97, 48, 56, 55, 53,
       55, 51, 54, 53, 54, 52, 50, 100, 54, 100, 54, 53, 54, 100, 99, 50, 98, 48, 99, 52, 49, 48,
       48, 48, 102, 97, 48, 56, 54, 49, 54, 102, 54, 54, 50, 100, 54, 50, 54, 49, 55, 51, 54, 53,
       99, 48, 48, 48, 102, 102, 102, 48, 54, 101, 51, 98, 102, 101, 99, 48, 102, 102, 53, 97, 97, 50>>

\* u8::from_str_radix(&s[i..i + 2], 16)
HexVal(ch) == IF ch <= 57 THEN ch - 48 ELSE ch - 87
empty_rdb_file_bytes ==
    [i \in 1..(Len(EMPTY_RDB_FILE_HEX_STRING) \div 2) |->
        16 * HexVal(EMPTY_RDB_FILE_HEX_STRING[2 * i - 1])
            + HexVal(EMPTY_RDB_FILE_HEX_STRING[2 * i])]

\* the snapshot blob as send_rdb_file writes it: "$", the length, CR-LF, the bytes
Rdb == [t |-> "rdb",
        bytes |-> <<36>> \o ToDec(Len(empty_rdb_file_bytes)) \o CRLF
                      \o empty_rdb_file_bytes]

\* MasterReplicationClient::send_rdb_file
send_rdb_file(st, c) == [st EXCEPT !.out[c] = Append(@, Rdb)]

\* MasterReplicationClient::add_stream: the connection joins the fan-out set
add_stream(st, c) ==
    [st EXCEPT !.attached = @ \cup {c},
               !.hist.att[c] = Len(st.hist.enq)]

\* Server::handle after a PSYNC on the leader (server.rs:124-133), under the
\* lock of master_repl_clients; the connection's read loop ends
psync_attach(st, c) ==
    [add_stream(send_rdb_file(st, c), c) EXCEPT !.pc[c] = "fanwait"]

\* replication_channel::receiver: the one receiver is locked
receiver(st, c) == [st EXCEPT !.rx = c, !.pc[c] = "fanout"]

\* MasterReplicationClient::send_commands, one turn of its loop: the next
\* frame of the queue is written to this follower
send_commands(st, c) ==
    [st EXCEPT !.out[c] = Append(@, Fwd(Head(st.chan).fr, Head(st.chan).wid)),
               !.chan = Tail(@)]

---------------------------------------------------------------------------
(* The follower's handshake (FollowerReplicationClient, replication_client.rs) *)

Port == 6379        \* args.port.unwrap_or(6379)

S_listening_port == <<108, 105, 115, 116, 101, 110, 105, 110, 103, 45, 112, 111, 114, 116>>
S_capa == <<99, 97, 112, 97>>
S_psync2 == <<112, 115, 121, 110, 99, 50>>

PingFrame == <<"ping">>
PortFrame == <<"replconf", S_listening_port, ToDec(Port)>>
CapaFrame == <<"replconf", S_capa, S_psync2>>

\* stream.write_all(protocol.encode().as_bytes())
write_link(st, fr) ==
    [st EXCEPT !.hs.inbox = Append(@, fr), !.hs.sent = Append(@, fr)]

\* the first half of each step, up to its wait for the reply
ping_master(st) == [write_link(st, PingFrame) EXCEPT !.hs.step = "ping"]
report_port(st) == [write_link(st, PortFrame) EXCEPT !.hs.step = "port"]
report_sync_protocol(st) == [write_link(st, CapaFrame) EXCEPT !.hs.step = "capa"]
start_psync(st) == [write_link(st, <<"psync", <<63>>, <<45, 49>>>>) EXCEPT !.hs.step = "psync"]

\* the step that follows a step whose reply was the expected one
After(step) ==
    CASE step = "ping" -> "ponged"
      [] step = "port" -> "ported"
      [] step = "capa" -> "capad"

\* a check_resp that takes any reply for the expected one
check_resp_any(st, expected) ==
    LET x == st.out["f1"][st.rd + 1]
    IN  [st EXCEPT !.rd = @ + 1,
                   !.hs.got = Append(@, x),
                   !.hs.step = After(st.hs.step)]

\* check_resp: one read of the link, compared with the encoding of the
\* expected simple string
check_resp(st, expected) ==
    LET x == st.out["f1"][st.rd + 1]
    IN  [st EXCEPT !.rd = @ + 1,
                   !.hs.got = Append(@, x),
                   !.hs.step = IF x = Lit(expected) THEN After(st.hs.step) ELSE "err"]

\* str::split_whitespace().count() of a line of bytes
RECURSIVE Words(_, _)
Words(b, inword) ==
    IF Len(b) = 0 THEN 0
    ELSE IF b[1] \in {32, 9, 10, 13} THEN Words(Tail(b), FALSE)
    ELSE (IF inword THEN 0 ELSE 1) + Words(Tail(b), TRUE)

\* the words of the line of a reply; the literal replies that can arrive here
\* are one word long, but for the refusal of PSYNC by a follower
LineWords(x) ==
    IF x.t # "simple" THEN 0
    ELSE IF "s" \in DOMAIN x THEN Words(<<43>> \o x.s, FALSE)
    ELSE IF x.lit = "PSYNC ON SLAVE IS NOT ALLOWED" THEN 6
    ELSE 1

\* the number of bytes read_until(rdb::EOF) and read_exact(8 bytes) take from
\* b, 0 when b ends before
BlobTaken(b) ==
    LET e == {i \in 1..Len(b) : b[i] = 255}
    IN  IF e = {} THEN 0
        ELSE LET i == CHOOSE i \in e : \A j \in e : i <= j
             IN  IF i + 8 <= Len(b) THEN i + 8 ELSE 0

\* recv_rdb_file: the line of FULLRESYNC with its three words, then the
\* snapshot up to its end mark and the 8 bytes after it
recv_rdb_file(st) ==
    LET x == st.out["f1"][st.rd + 1]
        st1 == [st EXCEPT !.rd = @ + 1, !.hs.got = Append(@, x)]
    IN  IF st.hs.step = "psync"
        THEN [st1 EXCEPT !.hs.step = IF LineWords(x) = 3 THEN "rdb" ELSE "err"]
        ELSE [st1 EXCEPT !.hs.step =
                  IF x.t = "rdb" /\ BlobTaken(x.bytes) > 0 THEN "done" ELSE "err"]

\* the order of the steps at start-up: each one returns before the next is called
handshake(st) ==
    CASE st.hs.step = "conn" -> ping_master(st)
      [] st.hs.step = "ponged" -> report_port(st)
      [] st.hs.step = "ported" -> report_sync_protocol(st)
      [] st.hs.step = "capad" -> start_psync(st)

\* FollowerReplicationClient::new: TcpStream::connect to the configured address
Connect(p) ==
    /\ hs.step = "off"
    /\ Becomes([S EXCEPT !.hs.peer = p, !.hs.step = "conn"])

HsSend ==
    /\ hs.step \in {"conn", "ponged", "ported", "capad"}
    /\ Becomes(handshake(S))

HsCheck ==
    /\ hs.step \in {"ping", "port", "capa"}
    /\ rd < Len(out["f1"])
    /\ Becomes(check_resp(S, IF hs.step = "ping" THEN "PONG" ELSE "OK"))

RecvRdbFile ==
    /\ hs.step \in {"psync", "rdb"}
    /\ rd < Len(out["f1"])
    /\ Becomes(recv_rdb_file(S))

\* the leader's task of the connection reads the frame the follower wrote
LeaderRecv ==
    /\ hs.peer = "leader"
    /\ hs.inbox # <<>>
    /\ pc["f1"] = "idle"
    /\ ncmd["f1"] < MaxCmds
    /\ Becomes(handle([S EXCEPT !.hs.inbox = Tail(@)], "f1", Head(hs.inbox)))

\* a peer that is not this program answers a frame with x
PeerReply(x) ==
    /\ hs.peer = "other"
    /\ hs.inbox # <<>>
    /\ Becomes([S EXCEPT !.hs.inbox = Tail(@), !.out["f1"] = Append(@, x)])

---------------------------------------------------------------------------
(* The snapshot file read at start-up (rdb.rs) *)

NoRdb == [ok |-> FALSE]

\* the n bytes at position i
Bytes(b, i, n) == SubSeq(b, i, i + n - 1)
Has(b, i, n) == i + n - 1 <= Len(b)

\* read_u16_le, read_u32_le, read_u64_le / read_u32
RECURSIVE LittleEndian(_)
LittleEndian(x) == IF Len(x) = 0 THEN 0 ELSE x[1] + 256 * LittleEndian(Tail(x))
RECURSIVE BigEndian(_, _)
BigEndian(x, acc) == IF Len(x) = 0 THEN acc ELSE BigEndian(Tail(x), 256 * acc + x[1])

\* parse_len: the arm 0x04 can never match first & 0xC0, so a first byte
\* 01xxxxxx falls to the last arm
parse_len(b, i) ==
    IF ~Has(b, i, 1) THEN NoRdb
    ELSE LET first == b[i]
             top == first \div 64
         IN  IF top = 0 THEN [ok |-> TRUE, n |-> first, enc |-> "Raw", i |-> i + 1]
             ELSE IF top = 1 THEN NoRdb
             ELSE IF top = 2
             THEN IF Has(b, i + 1, 4)
                  THEN [ok |-> TRUE, n |-> BigEndian(Bytes(b, i + 1, 4), 0), enc |-> "Raw",
                        i |-> i + 5]
                  ELSE NoRdb
             ELSE IF first = 192 THEN [ok |-> TRUE, n |-> 1, enc |-> "I8", i |-> i + 1]
             ELSE IF first = 193 THEN [ok |-> TRUE, n |-> 2, enc |-> "I16", i |-> i + 1]
             ELSE IF first = 194 THEN [ok |-> TRUE, n |-> 4, enc |-> "I32", i |-> i + 1]
             ELSE IF first = 195 THEN [ok |-> TRUE, n |-> 0, enc |-> "LZF", i |-> i + 1]
             ELSE NoRdb

\* parse_string
parse_string(b, i, len, enc) ==
    IF enc = "LZF" THEN NoRdb
    ELSE IF ~Has(b, i, len) THEN NoRdb
    ELSE IF enc = "Raw" THEN [ok |-> TRUE, s |-> Bytes(b, i, len), i |-> i + len]
    ELSE [ok |-> TRUE, s |-> ToDec(LittleEndian(Bytes(b, i, len))), i |-> i + len]

\* a step of the parser is written One({rest of the parse from r : r \in
\* {what was read}}): what was read is evaluated once, and an Err in it ends
\* the parse as the `?` of the code does
One(s) == CHOOSE x \in s : TRUE

\* parse_aux
parse_aux(b, i) ==
    One({IF ~l.ok THEN NoRdb ELSE parse_string(b, l.i, l.n, l.enc) :
            l \in {parse_len(b, i)}})

\* parse_no_expire_entry
parse_no_expire_entry(b, i) ==
    IF ~Has(b, i, 1) \/ b[i] # 0 THEN NoRdb
    ELSE One({IF ~k.ok THEN NoRdb
              ELSE One({IF ~v.ok THEN NoRdb
                        ELSE [ok |-> TRUE, k |-> k.s, v |-> v.s, i |-> v.i] :
                            v \in {parse_aux(b, k.i)}}) :
                  k \in {parse_aux(b, i + 1)}})

\* parse_expire_entry: 0xFC carries milliseconds in 8 bytes, 0xFD seconds in
\* 4 bytes, multiplied by 1000 in u32; the files read here keep the product
\* small, in the code a product from 2^32 on overflows the u32
parse_expire_entry(b, i) ==
    IF ~Has(b, i, 1) THEN NoRdb
    ELSE IF b[i] = 252
    THEN IF ~Has(b, i + 1, 8) THEN NoRdb
         ELSE One({IF ~e.ok THEN NoRdb
                   ELSE [ok |-> TRUE, k |-> e.k, v |-> e.v, i |-> e.i,
                         expire_timestamp |-> LittleEndian(Bytes(b, i + 1, 8))] :
                       e \in {parse_no_expire_entry(b, i + 9)}})
    ELSE IF b[i] = 253
    THEN IF ~Has(b, i + 1, 4) THEN NoRdb
         ELSE One({IF ~e.ok THEN NoRdb
                   ELSE [ok |-> TRUE, k |-> e.k, v |-> e.v, i |-> e.i,
                         expire_timestamp |-> LittleEndian(Bytes(b, i + 1, 4)) * 1000] :
                       e \in {parse_no_expire_entry(b, i + 5)}})
    ELSE NoRdb

\* the first loop of TABLE_SIZE_INFO (rdb.rs:50-53)
RECURSIVE load_no_expire(_, _, _, _)
load_no_expire(b, i, n, m) ==
    IF n = 0 THEN [ok |-> TRUE, m |-> m, i |-> i]
    ELSE One({IF ~e.ok THEN NoRdb
              ELSE One({load_no_expire(b, e.i, n - 1, m1) :
                            m1 \in {storage_set(m, e.k, e.v)}}) :
                  e \in {parse_no_expire_entry(b, i)}})

\* the second loop of TABLE_SIZE_INFO (rdb.rs:54-57)
RECURSIVE load_expire(_, _, _, _, _)
load_expire(b, i, n, m, t) ==
    IF n = 0 THEN [ok |-> TRUE, m |-> m, i |-> i]
    ELSE One({IF ~e.ok THEN NoRdb
              ELSE One({load_expire(b, e.i, n - 1, m1, t) :
                            m1 \in {storage_setx(m, e.k, e.v, e.expire_timestamp, t)}}) :
                  e \in {parse_expire_entry(b, i)}})

\* MAGIC and the section bytes of the file format
S_REDIS == <<82, 69, 68, 73, 83>>
META == 250
DB_SELECT == 254
TABLE_SIZE_INFO == 251
EOF == 255

\* TABLE_SIZE_INFO: the two sizes, then the entries without and with a
\* deadline (rdb.rs:47-58)
load_table(b, i, m, t) ==
    One({IF ~size_no_expire.ok THEN NoRdb
         ELSE One({IF ~size_expire.ok THEN NoRdb
                   ELSE One({IF ~r1.ok THEN NoRdb
                             ELSE load_expire(b, r1.i, size_expire.n, r1.m, t) :
                                 r1 \in {load_no_expire(b, size_expire.i,
                                                        size_no_expire.n, m)}}) :
                       size_expire \in {parse_len(b, size_no_expire.i)}}) :
             size_no_expire \in {parse_len(b, i)}})

\* one section: META (two strings, ignored), DB_SELECT (a length, ignored),
\* TABLE_SIZE_INFO, EOF (the eight bytes of the checksum, not verified)
rdb_op(b, i, m, t) ==
    IF ~Has(b, i, 1) THEN NoRdb
    ELSE IF b[i] = META
    THEN One({IF ~x.ok THEN NoRdb
              ELSE One({IF ~y.ok THEN NoRdb
                        ELSE [ok |-> TRUE, eof |-> FALSE, m |-> m, i |-> y.i] :
                            y \in {parse_aux(b, x.i)}}) :
                  x \in {parse_aux(b, i + 1)}})
    ELSE IF b[i] = DB_SELECT
    THEN One({IF ~l.ok THEN NoRdb
              ELSE [ok |-> TRUE, eof |-> FALSE, m |-> m, i |-> l.i] :
                  l \in {parse_len(b, i + 1)}})
    ELSE IF b[i] = TABLE_SIZE_INFO
    THEN One({IF ~r.ok THEN NoRdb
              ELSE [ok |-> TRUE, eof |-> FALSE, m |-> r.m, i |-> r.i] :
                  r \in {load_table(b, i + 1, m, t)}})
    ELSE IF b[i] = EOF
    THEN IF Has(b, i + 1, 8) THEN [ok |-> TRUE, eof |-> TRUE, m |-> m, i |-> i + 9]
         ELSE NoRdb
    ELSE NoRdb

\* the loop of parse_rdb (rdb.rs:35-66)
RECURSIVE rdb_ops(_, _, _, _)
rdb_ops(b, i, m, t) ==
    One({IF ~r.ok THEN NoRdb
         ELSE IF r.eof THEN [ok |-> TRUE, m |-> r.m]
         ELSE rdb_ops(b, r.i, r.m, t) :
             r \in {rdb_op(b, i, m, t)}})

\* parse_rdb: the magic, the version, the sections
parse_rdb(b, m, t) ==
    IF ~Has(b, 1, 9) \/ Bytes(b, 1, 5) # S_REDIS THEN NoRdb
    ELSE rdb_ops(b, 10, m, t)

\* Server::init on the leader: a file that is not empty is parsed into the
\* store; a file that does not parse ends the start-up
ServerInit(file) ==
    /\ ~hist.boot.on
    /\ \A c \in Conns : ncmd[c] = 0
    /\ \E r \in {parse_rdb(file.bytes, storage["master"], now)} :
        /\ r.ok
        /\ Becomes([S EXCEPT !.storage["master"] = r.m,
                             !.hist.boot = [on |-> TRUE, k |-> file.k, v |-> file.v,
                                            D |-> file.D]])

---------------------------------------------------------------------------
(* Actions *)

\* a connection's task reads a frame and runs it up to its first wait
Recv(c, raw) ==
    /\ pc[c] = "idle"
    /\ ncmd[c] < MaxCmds
    /\ Becomes(handle(S, c, raw))

RECURSIVE RawLen(_)
RawLen(raws) ==
    IF Len(raws) = 0 THEN 0 ELSE EncodeLen(raws[1]) + RawLen(Tail(raws))

\* a connection's task reads several frames that arrived together
RecvPipe(c, raws) ==
    /\ pc[c] = "idle"
    /\ Len(raws) > 1
    /\ ncmd[c] + Len(raws) <= MaxCmds
    /\ RawLen(raws) <= ReadBuf
    /\ Becomes(handle_buf(S, c, raws))

ExecStep(c) ==
    /\ pc[c] = "exec"
    /\ Becomes(exec_next(S, c))

Signal(c) ==
    /\ pc[c] = "signal"
    /\ \A i \in 1..Len(blocker[Owner(c)]) : wake[blocker[Owner(c)][i]] < WaiterCap
    /\ Becomes(xadd_signal(S, c))

Replicate(c) ==
    /\ pc[c] = "repl"
    /\ is_master(Owner(c)) => Len(chan) < ChanCap
    /\ Becomes(resp_and_replicate(S, c))

XreadWake(c) ==
    /\ pc[c] = "wait"
    /\ wake[c] > 0
    /\ Becomes(xread_wake(S, c))

XreadRead(c) ==
    /\ pc[c] = "sleep"
    /\ Becomes(xread_read(S, c))

PsyncAttach(c) ==
    /\ pc[c] = "psync"
    /\ Becomes(psync_attach(S, c))

FanoutLock(c) ==
    /\ pc[c] = "fanwait"
    /\ rx = "none"
    /\ Becomes(receiver(S, c))

FanoutSend(c) ==
    /\ pc[c] = "fanout"
    /\ rx = c
    /\ chan # <<>>
    /\ Becomes(send_commands(S, c))

RECURSIVE ItemsLen(_)
ItemsLen(items) ==
    IF Len(items) = 0 THEN 0 ELSE EncodeLen(items[1].fr) + ItemsLen(Tail(items))

\* the follower's replication task (main.rs:66-83): one read of the link takes
\* the n frames that have arrived, and Cmd::from takes the first of them
RepRecv(n) ==
    /\ pc["rep"] = "idle"
    /\ rd + n <= Len(out["f1"])
    /\ LET items == SubSeq(out["f1"], rd + 1, rd + n)
       IN  /\ \A i \in 1..n : items[i].t = "cmd"
           /\ ItemsLen(items) <= ReadBuf
           /\ Becomes(handle([S EXCEPT !.rd = rd + n], "rep", items[1].fr))

\* the follower's handshake reads the reply and the snapshot
\* (FollowerReplicationClient::recv_rdb_file)
FollowerSync ==
    /\ rd < Len(out["f1"])
    /\ out["f1"][rd + 1].t # "cmd"
    /\ rd' = rd + 1
    /\ UNCHANGED <<storage, streams, offset, blocker, wake, chan, rx, attached, pc,
                   cur, queued, exq, out, now, ncmd, codec, hs, hist>>

\* the clock advances
Tick ==
    /\ now < MaxClock
    /\ now' = now + 1
    /\ UNCHANGED <<storage, streams, offset, blocker, wake, chan, rx, attached, pc,
                   cur, queued, exq, out, rd, ncmd, codec, hs, hist>>

---------------------------------------------------------------------------
(* Inputs *)

K_a == <<97>>
K_k == <<107>>
K_s == <<115>>
V_1 == <<49>>
V_v == <<118>>
F_f == <<102>>

IdMs == {0, 1, 9, 10}
IdSeq == {0, 1}
XaddIds ==
    {IdStr(ms, seq) : ms \in IdMs, seq \in IdSeq}
        \cup {ToDec(ms) \o <<Dash, Star>> : ms \in IdMs}
        \cup {S_star}

StreamFrames == {<<"xadd", K_s, id, F_f, V_v>> : id \in XaddIds}

---------------------------------------------------------------------------
(* One client of the leader adding to one stream *)

NextStream ==
    \/ \E fr \in StreamFrames : Recv("c1", fr)
    \/ Signal("c1")
    \/ Replicate("c1")
    \/ Tick

SpecStream == Init /\ [][NextStream]_vars

\* C1: the ids of one stream, in the order they were inserted, are strictly
\* increasing in the numeric (ms, seq) order
C1_StreamIdsIncrease ==
    \A i, j \in 1..Len(hist.xlog) :
        (i < j /\ hist.xlog[i][1] = hist.xlog[j][1] /\ hist.xlog[i][2] = hist.xlog[j][2])
            => IdLt(hist.xlog[i][3], hist.xlog[j][3])

---------------------------------------------------------------------------
(* One client of the follower *)

SlaveFrames ==
    { <<"set", K_k, V_1>>, <<"set", K_k, V_v, S_px, V_1>>, <<"set", K_k, V_v, S_ex, V_1>>,
      <<"del", K_k>>, <<"xadd", K_s, IdStr(1, 1), F_f, V_v>>, <<"incr", K_k>>,
      <<"get", K_k>> }

NextSlave ==
    \/ \E fr \in SlaveFrames : Recv("s1", fr)
    \/ Signal("s1")
    \/ Replicate("s1")
    \/ Tick

SpecSlave == Init /\ [][NextSlave]_vars

IsWrite(cmd) == cmd.ok /\ cmd.name \in {"Set", "SetPx", "SetEx", "Del", "Xadd", "Incr"}

LastOut(c) == out[c][Len(out[c])]

\* C2: on the follower a write command of a client is answered
\* DISALLOW WRITE ON SLAVE and the keyspace, the streams and the waiter list
\* are as they were before the command
C2_FollowerRefusesWrites ==
    (pc["s1"] = "idle" /\ IsWrite(hist.last["s1"]))
        => /\ LastOut("s1") = Lit("DISALLOW WRITE ON SLAVE")
           /\ Snap(S, "slave") = cur["s1"].pre

---------------------------------------------------------------------------
(* One client of the leader using transactions *)

TxnFrames ==
    { <<"multi">>, <<"exec">>, <<"discard">>, <<"set", K_a, V_1>>, <<"incr", K_a>>,
      <<"get", K_a>>, <<"xadd", K_s, IdStr(1, 1), F_f, V_v>>,
      <<"config", S_get, K_a>>, <<"psync", <<63>>, <<45, 49>>>>,
      <<"xread", S_block, <<48>>, S_streams, K_s, IdStr(0, 0)>> }

NextTxn ==
    \/ \E fr \in TxnFrames : Recv("c1", fr)
    \/ ExecStep("c1")
    \/ Signal("c1")
    \/ Replicate("c1")
    \/ PsyncAttach("c1")
    \/ FanoutLock("c1")
    \/ FanoutSend("c1")

SpecTxn == Init /\ [][NextTxn]_vars

\* C3: inside a transaction a command other than MULTI, EXEC and DISCARD is
\* appended to the buffer, answered QUEUED, and changes neither the keyspace,
\* the streams, the offset, the replication queue nor what is sent to any
\* other connection
C3_QueuedHasNoEffect ==
    [][\A c \in Conns :
          (queued[c].open /\ ncmd'[c] = ncmd[c] + 1
                /\ hist'.last[c].ok /\ ~IsTxnCmd(hist'.last[c]))
            => /\ queued'[c] = [open |-> TRUE,
                                buf |-> Append(queued[c].buf, hist'.last[c])]
               /\ out'[c] = Append(out[c], Lit("QUEUED"))
               /\ storage' = storage /\ streams' = streams /\ offset' = offset
               /\ chan' = chan
               /\ \A d \in Conns \ {c} : out'[d] = out[d]]_vars

C3_Witness ==
    /\ queued["c1"].open
    /\ \E i \in 1..Len(queued["c1"].buf) : queued["c1"].buf[i].name = "Set"
    /\ LastOut("c1") = Lit("QUEUED")
    /\ K_a \notin DOMAIN storage["master"]

\* C4: when an EXEC on a connection with n queued commands is over, the
\* queued commands have run once each in the order they were queued, the
\* reply is an Array of n results and the buffer is absent
C4_ExecRunsAll ==
    \A c \in Conns :
        (hist.ex[c].on /\ pc[c] \in {"idle", "closed"})
            => /\ hist.ex[c].ran = hist.ex[c].buf
               /\ LastOut(c).t = "array"
               /\ Len(LastOut(c).a) = Len(hist.ex[c].buf)
               /\ ~queued[c].open

\* C5 as stated: DISCARD in a transaction drops the buffer, answers ok and
\* leaves the keyspace, the streams and the replication queue alone; without
\* a transaction it answers ERR Discard without MULTI and changes nothing
C5_DiscardChangesNothing ==
    [][\A c \in Conns :
          (ncmd'[c] = ncmd[c] + 1 /\ hist'.last[c].ok /\ hist'.last[c].name = "Discard")
            => /\ storage' = storage /\ streams' = streams /\ blocker' = blocker
               /\ chan' = chan
               /\ \A d \in Conns \ {c} : out'[d] = out[d]
               /\ IF queued[c].open
                  THEN queued'[c] = NoQueue /\ out'[c] = Append(out[c], Lit("ok"))
                  ELSE /\ queued'[c] = queued[c]
                       /\ offset' = offset
                       /\ out'[c] = Append(out[c], Lit("ERR Discard without MULTI"))]_vars

\* C5 amended: DISCARD in a transaction drops the buffer, answers ok and
\* leaves the keyspace, the streams and the replication queue alone; without
\* a transaction it answers ERR Discard without MULTI and changes nothing but
\* the offset; in both cases the offset advances by the length of the frame
C5_Discard ==
    [][\A c \in Conns :
          (ncmd'[c] = ncmd[c] + 1 /\ hist'.last[c].ok /\ hist'.last[c].name = "Discard")
            => /\ storage' = storage /\ streams' = streams /\ blocker' = blocker
               /\ chan' = chan
               /\ \A d \in Conns \ {c} : out'[d] = out[d]
               /\ offset' = [offset EXCEPT ![Owner(c)] = @ + EncodeLen(hist'.last[c].fr)]
               /\ IF queued[c].open
                  THEN queued'[c] = NoQueue /\ out'[c] = Append(out[c], Lit("ok"))
                  ELSE /\ queued'[c] = queued[c]
                       /\ out'[c] = Append(out[c], Lit("ERR Discard without MULTI"))]_vars

C5_Witness ==
    /\ hist.last["c1"].ok /\ hist.last["c1"].name = "Discard"
    /\ Len(out["c1"]) >= 3
    /\ out["c1"][Len(out["c1"])] = Lit("ok")
    /\ out["c1"][Len(out["c1"]) - 1] = Lit("QUEUED")
    /\ ~queued["c1"].open
    /\ storage["master"] = << >>

\* C9: the offset of the leader is the sum of the encoded lengths of the
\* frames of the commands it executed
C9_OffsetIsBytes ==
    (\A c \in Conns : pc[c] \in {"idle", "closed"})
        => offset["master"] = hist.bytes["master"]

---------------------------------------------------------------------------
(* The leader with two writers and its followers *)

ReplCmds == 2       \* frames one connection sends in the replication runs

PsyncFrame == <<"psync", <<63>>, <<45, 49>>>>

ReplFrames ==
    [c1 |-> {<<"set", K_k, V_1>>, <<"incr", K_a>>},
     c2 |-> {<<"set", K_k, V_v>>, PsyncFrame},
     f1 |-> {PsyncFrame}]

NextRepl ==
    \/ \E c \in {"c1", "c2", "f1"} : \E fr \in ReplFrames[c] :
            ncmd[c] < ReplCmds /\ Recv(c, fr)
    \/ \E c \in {"c1", "c2", "rep"} : Replicate(c)
    \/ \E c \in {"c2", "f1"} : PsyncAttach(c)
    \/ \E c \in {"c2", "f1"} : FanoutLock(c)
    \/ \E c \in {"c2", "f1"} : FanoutSend(c)
    \/ \E n \in 1..ReplCmds : RepRecv(n)
    \/ FollowerSync

SpecRepl == Init /\ [][NextRepl]_vars

Range(q) == {q[i] : i \in 1..Len(q)}

\* C6: the writes reach the replication queue in the order in which they
\* were applied to the leader's store, and a write is on the queue before its
\* reply is produced
C6_QueueOrderIsApplyOrder ==
    /\ \A i, j \in 1..Len(hist.enq) : i < j => hist.enq[i] < hist.enq[j]
    /\ \A c \in {"c1", "c2"} :
           (pc[c] = "idle" /\ cur[c].wid > 0) => cur[c].wid \in Range(hist.enq)

\* what a key maps to on a server
KeyView(sv, k) ==
    [str |-> IF k \in DOMAIN storage[sv] THEN <<storage[sv][k].v>> ELSE <<>>,
     ids |-> IF k \in DOMAIN streams[sv] THEN DOMAIN streams[sv][k] ELSE {}]

\* every writer is done, the queue is empty and the follower has read and
\* applied all that was written to its link
FollowerCaughtUp ==
    /\ \A c \in {"c1", "c2"} : pc[c] \in {"idle", "closed", "fanwait"}
    /\ pc["f1"] = "fanout"
    /\ chan = <<>>
    /\ rd = Len(out["f1"])
    /\ pc["rep"] = "idle"

\* C7: once the follower has applied all it was sent, its store agrees with
\* the leader's on every key the accepted writes touched
C7_FollowerStoreEqualsLeader ==
    FollowerCaughtUp =>
        \A k \in hist.mut : KeyView("slave", k) = KeyView("master", k)

RECURSIVE Wids(_)
Wids(o) ==
    IF Len(o) = 0 THEN <<>>
    ELSE (IF o[1].t = "cmd" THEN <<o[1].wid>> ELSE <<>>) \o Wids(Tail(o))

AcceptedAfter(f) == SubSeq(hist.enq, hist.att[f] + 1, Len(hist.enq))

IsAfter(f, w) == w \in Range(AcceptedAfter(f))

RECURSIVE Keep(_, _)
Keep(q, f) ==
    IF Len(q) = 0 THEN <<>>
    ELSE (IF IsAfter(f, q[1]) THEN <<q[1]>> ELSE <<>>) \o Keep(Tail(q), f)

\* C8: once the queue is drained, every attached follower has been sent
\* every write accepted after it attached, once and in order
C8_EveryFollowerGetsEveryWrite ==
    (chan = <<>> /\ \A c \in Conns : pc[c] \notin {"repl", "signal", "psync"})
        => \A f \in attached : Keep(Wids(out[f]), f) = AcceptedAfter(f)

---------------------------------------------------------------------------
(* A blocked stream reader and a writer, with a fair scheduler *)

BlockFrames ==
    [c1 |-> {<<"xread", S_block, <<48>>, S_streams, K_s, IdStr(0, 0)>>},
     c2 |-> StreamFrames]

NextBlock ==
    \/ \E c \in {"c1", "c2"} : \E fr \in BlockFrames[c] :
            ncmd[c] < ReplCmds /\ Recv(c, fr)
    \/ Signal("c2")
    \/ Replicate("c2")
    \/ XreadWake("c1")

\* the runtime runs every task that can take a step
SpecBlock ==
    /\ Init /\ [][NextBlock]_vars
    /\ WF_vars(Signal("c2")) /\ WF_vars(Replicate("c2")) /\ WF_vars(XreadWake("c1"))

\* C10: a blocked XREAD that has been signaled by an XADD goes on to read
\* and reply
C10_SignaledReaderResumes ==
    (pc["c1"] = "wait" /\ wake["c1"] > 0) ~> (pc["c1"] = "idle")

---------------------------------------------------------------------------
(* One writer of a stream and two blocked readers *)

XreadBlock0 == <<"xread", S_block, <<48>>, S_streams, K_s, IdStr(0, 0)>>

WaitAdds ==
    {<<"xadd", K_s, id, F_f, V_v>> :
        id \in {IdStr(0, 0), IdStr(1, 1), IdStr(1, 0), <<49, Dash, Star>>}}

WaitFrames ==
    [c1 |-> WaitAdds, c2 |-> {XreadBlock0}, f1 |-> {XreadBlock0}]

NextWait ==
    \/ \E c \in {"c1", "c2", "f1"} : \E fr \in WaitFrames[c] : Recv(c, fr)
    \/ Signal("c1")
    \/ Replicate("c1")
    \/ \E c \in {"c2", "f1"} : XreadWake(c)

SpecWait == Init /\ [][NextWait]_vars

Waiting(sv) == Range(blocker[sv])

NotAboveLast(sv, cmd) ==
    /\ ~split_offset(cmd.id).wild /\ cmd.id # S_star
    /\ \/ cmd.id = IdStr(0, 0)
       \/ /\ cmd.k \in DOMAIN streams[sv]
          /\ \E b \in DOMAIN streams[sv][cmd.k] : ~IdLt(b, cmd.id)

\* C12: an XADD whose id is 0-0 or is explicit and not greater than the last
\* id of the stream is answered with an ERR reply and changes neither the
\* streams nor the waiter list, signals nobody and forwards nothing; no stream
\* holds the id 0-0
C12_RejectedXaddHasNoEffect ==
    [][/\ \A c \in {"c1", "c2"} :
            (ncmd'[c] = ncmd[c] + 1 /\ hist'.last[c].ok /\ hist'.last[c].name = "Xadd"
                  /\ ~queued[c].open /\ NotAboveLast(Owner(c), hist'.last[c]))
              => /\ \E e \in {ErrZero, ErrSmall} : out'[c] = Append(out[c], Lit(e))
                 /\ streams' = streams /\ blocker' = blocker /\ wake' = wake
                 /\ chan' = chan
       /\ \A sv \in Servers : \A k \in DOMAIN streams'[sv] :
            IdStr(0, 0) \notin DOMAIN streams'[sv][k]]_vars

\* the greatest id of a non-empty set in the numeric (ms, seq) order
NumLast(ids) == CHOOSE a \in ids : \A b \in ids : a = b \/ IdLt(b, a)

\* the seq that an id "ms-*" is to get in a stream holding ids
WildSeq(ids, ms) ==
    IF ids = {} \/ split_offset(NumLast(ids)).id < ms
    THEN (IF ms > 0 THEN 0 ELSE 1)
    ELSE split_offset(NumLast(ids)).seq + 1

\* C13: an accepted XADD with id ms-* into a stream that is empty or whose
\* last id has an ms not above ms stores the seq 0 (1 when ms = 0) or, for an
\* equal ms, the last seq plus one, and the reply is the id ms-seq
C13_WildcardSeq ==
    \A c \in {"c1"} :
        LET cmd == hist.last[c]
            pre == cur[c].pre.streams
            ids == IF cmd.k \in DOMAIN pre THEN DOMAIN pre[cmd.k] ELSE {}
            ms == split_offset(cmd.id).id
            id == IdStr(ms, WildSeq(ids, ms))
        IN  (/\ pc[c] = "idle" /\ cmd.ok /\ cmd.name = "Xadd"
             /\ cmd.id # S_star /\ split_offset(cmd.id).wild
             /\ Len(out[c]) > 0 /\ LastOut(c).t = "bulk"
             /\ (ids = {} \/ split_offset(NumLast(ids)).id <= ms))
            => /\ id \in DOMAIN streams[Owner(c)][cmd.k]
               /\ id \notin ids
               /\ LastOut(c) = Bulk(id)

---------------------------------------------------------------------------
(* One client of the leader using one key as a string and as a stream *)

KeyFrames ==
    { <<"set", K_k, V_1>>, <<"xadd", K_k, IdStr(1, 1), F_f, V_v>>, <<"del", K_k>>,
      <<"type", K_k>>, <<"get", K_k>>, <<"xrange", K_k, S_minus, S_plus>> }

NextKeys ==
    \/ \E fr \in KeyFrames : Recv("c1", fr)
    \/ Signal("c1")
    \/ Replicate("c1")

SpecKeys == Init /\ [][NextKeys]_vars

\* C14: no key of a server is a string key and a stream key at once
C14_StringOrStream ==
    \A sv \in Servers : DOMAIN storage[sv] \cap DOMAIN streams[sv] = {}

\* C15: after DEL k on the leader k is neither a string key nor a stream
\* key: TYPE k is none, GET k is Null and XRANGE k - + has no entries
C15_DelRemovesAny ==
    \A c \in {"c1", "c2"} :
        (pc[c] = "idle" /\ hist.last[c].ok /\ hist.last[c].name = "Del" /\ ~queued[c].open)
            => LET k == hist.last[c].k
               IN  /\ ~storage_get(storage["master"], k, now).some
                   /\ k \notin DOMAIN streams["master"]
                   /\ xrange(streams["master"], k, S_minus, S_plus) = Lit("none")

---------------------------------------------------------------------------
(* One client of the leader writing a key with and without a ttl *)

TtlFrames ==
    { <<"set", K_k, V_v, S_px, V_1>>, <<"set", K_k, V_v, S_ex, V_1>>,
      <<"set", K_k, V_1>>, <<"get", K_k>> }

NextTtl ==
    \/ \E fr \in TtlFrames : Recv("c1", fr)
    \/ Replicate("c1")
    \/ Tick

SpecTtl == Init /\ [][NextTtl]_vars

\* C16: a GET of a key last written at time T with ttl t answers the value
\* when now - T < t and Null, removing the entry, when now - T > t; a key last
\* written by a plain SET is answered with its value at any time
C16_Expiry ==
    [][\A c \in {"c1", "c2"} :
          (/\ ncmd'[c] = ncmd[c] + 1 /\ hist'.last[c].ok /\ hist'.last[c].name = "Get"
           /\ ~queued[c].open /\ hist'.last[c].k \in DOMAIN hist.wr["master"])
            => LET k == hist'.last[c].k
                   w == hist.wr["master"][k]
                   d == now - w.T
               IN  /\ (w.ttl = NoExp \/ d < w.ttl)
                          => out'[c] = Append(out[c], Simple(w.v))
                   /\ (w.ttl # NoExp /\ d > w.ttl)
                          => /\ out'[c] = Append(out[c], Null)
                             /\ k \notin DOMAIN storage'["master"]]_vars

C16_Witness ==
    /\ pc["c1"] = "idle" /\ hist.last["c1"].ok /\ hist.last["c1"].name = "Get"
    /\ K_k \in DOMAIN hist.wr["master"]
    /\ hist.wr["master"][K_k].ttl = 1
    /\ now - hist.wr["master"][K_k].T = 2
    /\ Len(out["c1"]) > 1 /\ LastOut("c1") = Null
    /\ out["c1"][Len(out["c1"]) - 1] = Simple(V_v)
    /\ K_k \notin DOMAIN storage["master"]

---------------------------------------------------------------------------
(* One client of the leader adding to a stream and reading ranges of it *)

RangeFrames ==
    { <<"xadd", K_s, IdStr(1, 1), F_f, V_v>>, <<"xadd", K_s, IdStr(2, 1), F_f, V_v>>,
      <<"xadd", K_s, IdStr(10, 0), F_f, V_v>>,
      <<"xrange", K_s, S_minus, S_plus>>, <<"xrange", K_s, IdStr(1, 1), IdStr(10, 0)>>,
      <<"xread", S_streams, K_s, IdStr(0, 0)>>, <<"xread", S_streams, K_s, IdStr(1, 1)>> }

NextRange ==
    \/ \E fr \in RangeFrames : Recv("c1", fr)
    \/ Signal("c1")
    \/ Replicate("c1")

SpecRange == Init /\ [][NextRange]_vars

\* a set of ids as a list in increasing numeric (ms, seq) order
RECURSIVE NumSort(_)
NumSort(ids) ==
    IF ids = {} THEN <<>>
    ELSE NumSort(ids \ {NumLast(ids)}) \o <<NumLast(ids)>>

\* C17: XRANGE key start end answers the entries whose id is between start
\* and end inclusive in the numeric order, in increasing order of id; "-" and
\* "+" stand for the least and the greatest id
C17_XrangeNumeric ==
    \A c \in {"c1"} :
        LET cmd == hist.last[c]
        IN  (/\ pc[c] \in {"idle", "closed"} /\ cmd.ok /\ cmd.name = "Xrange"
             /\ cmd.k \in DOMAIN streams[Owner(c)])
            => LET strm == streams[Owner(c)][cmd.k]
                   sel == {a \in DOMAIN strm :
                             /\ (cmd.lo = S_minus \/ ~IdLt(a, cmd.lo))
                             /\ (cmd.hi = S_plus \/ ~IdLt(cmd.hi, a))}
               IN  /\ Len(out[c]) > 0
                   /\ LastOut(c) = Arr(EntryList(strm, NumSort(sel)))

\* C18: XREAD of one stream from id s answers the entries of the stream
\* whose id is greater than s in the numeric order, all of them and no other
C18_XreadAbove ==
    \A c \in {"c1"} :
        LET cmd == hist.last[c]
        IN  (/\ pc[c] \in {"idle", "closed"} /\ cmd.ok /\ cmd.name = "Xread"
             /\ Len(cmd.ks) = 1 /\ cmd.ks[1] \in DOMAIN streams[Owner(c)])
            => LET strm == streams[Owner(c)][cmd.ks[1]]
                   sel == {a \in DOMAIN strm : IdLt(cmd.ids[1], a)}
               IN  /\ Len(out[c]) > 0
                   /\ LastOut(c) = Arr(<<Bulk(cmd.ks[1]), Arr(EntryList(strm, NumSort(sel)))>>)

---------------------------------------------------------------------------
(* One client of the leader sending unknown and ill-formed commands *)

BadFrames ==
    { <<"foo">>, <<"del">>, <<"set", K_k>>, <<"type", K_k, K_a>>,
      <<"get", K_k>>, <<"set", K_k, V_1>>, <<"del", K_k>> }

NextBad ==
    \/ \E fr \in BadFrames : Recv("c1", fr)
    \/ Replicate("c1")

SpecBad == Init /\ [][NextBad]_vars

\* C19: after a frame with an unknown verb or with the wrong number of
\* arguments for its verb the connection is open and the frame has been
\* answered with a simple string
C19_BadCommandInline ==
    \A c \in {"c1", "c2"} :
        (ncmd[c] > 0 /\ (~hist.last[c].ok \/ hist.last[c].name = "Unknow"))
            => /\ pc[c] = "idle"
               /\ Len(out[c]) = ncmd[c]
               /\ LastOut(c).t = "simple"

---------------------------------------------------------------------------
(* One client of the leader sending frames one by one and two at a time *)

PipeFrames ==
    { <<"get", K_k>>, <<"set", K_k, V_1>>, <<"set", K_k, V_v>>, <<"ping">> }

NextPipe ==
    \/ \E fr \in PipeFrames : Recv("c1", fr)
    \/ \E f1 \in PipeFrames : \E f2 \in PipeFrames : RecvPipe("c1", <<f1, f2>>)
    \/ Replicate("c1")

SpecPipe == Init /\ [][NextPipe]_vars

\* C20: when a client connection is idle every frame the client sent has been
\* executed and answered, one response per frame, in the order of arrival
C20_OneResponsePerFrame ==
    \A c \in {"c1", "c2"} :
        pc[c] = "idle"
            => /\ hist.done[c] = hist.sent[c]
               /\ Len(out[c]) = Len(hist.sent[c])

---------------------------------------------------------------------------
(* The codec: a frame is encoded, the encoding is decoded *)

MaxStrLen == 1      \* bytes in a string of a frame
MaxArr == 2         \* elements of an array of a frame

CodecBytes == {97, 65}
CodecStrs == UNION {[1..n -> CodecBytes] : n \in 0..MaxStrLen}
CodecLeaves == {Simple(s) : s \in CodecStrs} \cup {Bulk(s) : s \in CodecStrs} \cup {Null}
CodecFlat == {Arr(xs) : xs \in UNION {[1..n -> CodecLeaves] : n \in 0..MaxArr}}
CodecFrames ==
    CodecLeaves \cup CodecFlat
        \cup {Arr(<<x>>) : x \in CodecFlat}
        \cup {Arr(<<x, y>>) : x \in CodecFlat, y \in CodecLeaves}

CodecEncode(x) ==
    /\ codec.st = "none"
    /\ Becomes([S EXCEPT !.codec = [st |-> "enc", x |-> x, bytes |-> encode(x)]])

CodecFrom ==
    /\ codec.st = "enc"
    /\ Becomes([S EXCEPT !.codec = [st |-> "dec", x |-> codec.x, bytes |-> codec.bytes,
                                    got |-> from(codec.bytes)]])

NextCodec ==
    \/ \E x \in CodecFrames : CodecEncode(x)
    \/ CodecFrom

SpecCodec == Init /\ [][NextCodec]_vars

\* C21: decoding the encoding of a frame gives the frame back, with a
\* consumed-byte count equal to the length of the encoding
C21_CodecRoundTrip ==
    codec.st = "dec"
        => codec.got = [ok |-> TRUE, p |-> codec.x, n |-> Len(codec.bytes)]

---------------------------------------------------------------------------
(* PSYNC on the leader and on the follower *)

PsyncFrames ==
    [c1 |-> {<<"set", K_k, V_1>>},
     f1 |-> {PsyncFrame, <<"multi">>, <<"ping">>},
     s1 |-> {PsyncFrame, <<"ping">>}]

NextPsync ==
    \/ \E c \in {"c1", "f1", "s1"} : \E fr \in PsyncFrames[c] :
            ncmd[c] < ReplCmds /\ Recv(c, fr)
    \/ Replicate("c1")
    \/ PsyncAttach("f1")
    \/ FanoutLock("f1")
    \/ FanoutSend("f1")

SpecPsync == Init /\ [][NextPsync]_vars

\* the blob is "$", the decimal length, CR-LF and that many bytes, and nothing more
IsBlob(b) ==
    /\ b[1] = 36
    /\ Find(b) > 1
    /\ IsNum(SubSeq(b, 2, Find(b)))
    /\ Len(From(b, Find(b) + 2)) = ParseDec(SubSeq(b, 2, Find(b)))

\* C22: on the leader a connection that sent PSYNC gets the FULLRESYNC reply,
\* then the snapshot blob, and is then in the fan-out set, and no replicated
\* write is written to it before the snapshot; on the follower PSYNC is
\* answered PSYNC ON SLAVE IS NOT ALLOWED and the connection is never attached
C22_PsyncOrder ==
    /\ \A c \in {"c1", "c2", "f1"} :
          LET o == out[c]
              R == {i \in 1..Len(o) : o[i].t = "rdb"}
              W == {i \in 1..Len(o) : o[i].t = "cmd"}
          IN  /\ (hist.last[c].ok /\ hist.last[c].name = "Psync"
                    /\ pc[c] \in {"fanwait", "fanout"})
                    => (c \in attached /\ R # {})
              /\ c \in attached => R # {}
              /\ \A i \in R : i > 1 /\ o[i - 1] = FullResync /\ IsBlob(o[i].bytes)
              /\ \A j \in W : c \in attached /\ \E i \in R : i < j
    /\ \A c \in {"s1", "rep"} :
          /\ c \notin attached
          /\ (pc[c] = "idle" /\ hist.last[c].ok /\ hist.last[c].name = "Psync")
                => LastOut(c) = Lit("PSYNC ON SLAVE IS NOT ALLOWED")

---------------------------------------------------------------------------
(* The follower's handshake with a leader, or with another peer *)

PeerReplies == {Lit("PONG"), Lit("OK"), Lit("ERR"), FullResync, Rdb}

NextShake ==
    \/ \E p \in {"leader", "other"} : Connect(p)
    \/ HsSend
    \/ HsCheck
    \/ RecvRdbFile
    \/ LeaderRecv
    \/ \E x \in PeerReplies : PeerReply(x)
    \/ \E fr \in {<<"set", K_k, V_1>>} : ncmd["c1"] < ReplCmds /\ Recv("c1", fr)
    \/ Replicate("c1")
    \/ PsyncAttach("f1")
    \/ FanoutLock("f1")
    \/ FanoutSend("f1")

SpecShake ==
    /\ Init /\ [][NextShake]_vars
    /\ WF_vars(HsSend) /\ WF_vars(HsCheck) /\ WF_vars(RecvRdbFile)
    /\ WF_vars(LeaderRecv) /\ WF_vars(PsyncAttach("f1"))

HsOrder == <<PingFrame, PortFrame, CapaFrame, PsyncFrame>>
HsExpected == <<Lit("PONG"), Lit("OK"), Lit("OK")>>

\* every frame written is the next one of the order, it is written after the
\* expected replies to all the frames before it were read, and a reply that
\* differs ends the handshake in an error
HsInv ==
    /\ Len(hs.sent) <= Len(HsOrder)
    /\ hs.sent = SubSeq(HsOrder, 1, Len(hs.sent))
    /\ \A i \in 1..(Len(hs.sent) - 1) : Len(hs.got) >= i /\ hs.got[i] = HsExpected[i]
    /\ \A i \in 1..Len(hs.got) :
          (i <= Len(HsExpected) /\ hs.got[i] # HsExpected[i]) => hs.step = "err"

---------------------------------------------------------------------------
(* Writes on the follower's replication link *)

RECURSIVE CmdFrames(_)
CmdFrames(q) ==
    IF Len(q) = 0 THEN <<>>
    ELSE (IF q[1].t = "cmd" THEN <<q[1].fr>> ELSE <<>>) \o CmdFrames(Tail(q))

\* the frames of the replicated commands the follower has read from its link
RepArrived == CmdFrames(SubSeq(out["f1"], 1, rd))

\* C24: a write that arrives on the follower's replication link is run on the
\* follower's store and nothing is written back on the link: no reply, and
\* never DISALLOW WRITE ON SLAVE
C24_ReplicatedWriteApplied ==
    /\ out["rep"] = <<>>
    /\ \A c \in {"rep"} : pc[c] = "repl" => ~(cur[c].res = Lit("DISALLOW WRITE ON SLAVE"))
    /\ pc["rep"] = "idle"
          => /\ hist.sent["rep"] = RepArrived
             /\ \A i \in 1..Len(RepArrived) :
                   (i = Len(RepArrived) /\ RepArrived[i][1] = "set")
                       => /\ RepArrived[i][2] \in DOMAIN storage["slave"]
                          /\ storage["slave"][RepArrived[i][2]].v = RepArrived[i][3]

---------------------------------------------------------------------------
(* REPLCONF GETACK on the follower's replication link *)

GetAckFrame == <<"replconf", S_getack, S_star>>

AckFrames == {GetAckFrame, <<"set", K_k, V_1>>, <<"set", K_a, V_v>>, <<"ping">>}

NextAck ==
    \/ \E fr \in AckFrames : Recv("rep", fr)
    \/ Replicate("rep")

SpecAck == Init /\ [][NextAck]_vars

\* Protocol::from_vec(vec!["REPLCONF", "ACK", n])
Ack(n) == Arr(<<[t |-> "bulk", lit |-> "REPLCONF"], [t |-> "bulk", lit |-> "ACK"],
               Bulk(ToDec(n))>>)

\* C25: when REPLCONF GETACK * has been processed on the replication link,
\* the follower has written REPLCONF ACK <offset> on the link, the offset
\* being the one it had when the GETACK was processed
C25_GetAckAnswered ==
    (pc["rep"] = "idle" /\ hist.last["rep"].ok /\ hist.last["rep"].fr = GetAckFrame)
        => /\ Len(out["rep"]) > 0
           /\ LastOut("rep") = Ack(offset["slave"] - EncodeLen(GetAckFrame))

---------------------------------------------------------------------------
(* INCR *)

\* the integer a key held before the command that has just run, 0 for a
\* missing key, as text
OldInt(c) ==
    LET pre == cur[c].pre.storage
        k == cur[c].cmd.k
    IN  IF k \in DOMAIN pre THEN pre[k].v ELSE <<48>>

\* the reply to the command that has just run: the last element of the
\* Array when it ran inside EXEC
LastResult(c) ==
    IF LastOut(c).t = "array" THEN LastOut(c).a[Len(LastOut(c).a)] ELSE LastOut(c)

\* C26: INCR k stores and replies the old integer of k plus one, a missing
\* key counting as 0
C26_IncrAddsOne ==
    \A c \in {"c1"} :
        (pc[c] = "idle" /\ cur[c].cmd.ok /\ cur[c].cmd.name = "Incr"
            /\ ~queued[c].open /\ IsNum(OldInt(c)))
                => LET w == ToDec(ParseDec(OldInt(c)) + 1)
                       k == cur[c].cmd.k
                   IN  /\ k \in DOMAIN storage[Owner(c)]
                       /\ storage[Owner(c)][k].v = w
                       /\ LastResult(c) = Simple(w)

---------------------------------------------------------------------------
(* Two clients of the leader, one of them inside a transaction *)

TwoFrames ==
    [c1 |-> {<<"multi">>, <<"exec">>, <<"set", K_a, V_1>>, <<"get", K_a>>},
     c2 |-> {<<"set", K_k, V_v>>, <<"get", K_k>>, <<"multi">>}]

NextTwo ==
    \/ \E c \in {"c1", "c2"} : \E fr \in TwoFrames[c] :
            (c = "c2" => ncmd[c] < ReplCmds) /\ Recv(c, fr)
    \/ \E c \in {"c1", "c2"} : ExecStep(c)
    \/ \E c \in {"c1", "c2"} : Replicate(c)

SpecTwo == Init /\ [][NextTwo]_vars

\* the frames of a list of commands
FrameSet(q) == {q[i].fr : i \in 1..Len(q)}

\* a connection is inside MULTI when the last of the MULTI, EXEC and DISCARD
\* it sent is a MULTI
InMulti(c) ==
    LET q == hist.sent[c]
        T == {i \in 1..Len(q) : q[i][1] \in {"multi", "exec", "discard"}}
    IN  T # {} /\ q[CHOOSE i \in T : \A j \in T : j <= i][1] = "multi"

\* while A is inside MULTI, a command of B, which is not, leaves A's buffer
\* and A's EXEC alone, is run at once and is not answered QUEUED
OtherRunsAtOnce(A, B) ==
    (InMulti(A) /\ ~InMulti(B) /\ ncmd'[B] = ncmd[B] + 1
        /\ hist'.last[B].ok /\ ~IsTxnCmd(hist'.last[B]))
    => /\ queued'[A] = queued[A] /\ exq'[A] = exq[A] /\ out'[A] = out[A]
       /\ ~queued'[B].open
       /\ pc'[B] = "idle" => /\ Len(out'[B]) = Len(out[B]) + 1
                             /\ out'[B][Len(out'[B])] # Lit("QUEUED")
       /\ hist'.last[B].name = "Set"
             => /\ hist'.last[B].k \in DOMAIN storage'["master"]
                /\ storage'["master"][hist'.last[B].k].v = hist'.last[B].v

---------------------------------------------------------------------------
(* Two writers of one stream and a blocked reader *)

AddFrames ==
    [c1 |-> {<<"xadd", K_s, IdStr(1, 1), F_f, V_v>>, <<"xadd", K_s, IdStr(3, 1), F_f, V_v>>},
     c2 |-> {<<"xadd", K_s, IdStr(2, 1), F_f, V_v>>, <<"xadd", K_s, IdStr(4, 1), F_f, V_v>>},
     f1 |-> {XreadBlock0}]

NextAdds ==
    \/ \E c \in {"c1", "c2", "f1"} : \E fr \in AddFrames[c] :
            ncmd[c] < ReplCmds /\ Recv(c, fr)
    \/ \E c \in {"c1", "c2"} : Signal(c)
    \/ \E c \in {"c1", "c2"} : Replicate(c)
    \/ XreadWake("f1")

SpecAdds == Init /\ [][NextAdds]_vars

\* C28: from the append of an XADD to the draining of the waiter list by the
\* same XADD, no other XADD changes the streams
C28_SignalBeforeNextXadd ==
    [][\A c \in Conns :
          (pc[c] = "signal" /\ pc'[c] = "signal")
              => streams'[Owner(c)] = streams[Owner(c)]]_vars

---------------------------------------------------------------------------
(* Frames that fail on the follower's replication link *)

SkipBad == {<<"del">>, <<"config", S_get, K_a>>, <<"get">>}
SkipGood == {<<"set", K_k, V_1>>, <<"set", K_a, V_v>>}

NextSkip ==
    \/ \E fr \in SkipBad \cup SkipGood : Recv("rep", fr)
    \/ \E b \in SkipBad : \E g \in SkipGood : RecvPipe("rep", <<b, g>>)
    \/ Replicate("rep")

SpecSkip == Init /\ [][NextSkip]_vars

\* C29: a replicated command that fails is skipped and the link is kept: the
\* follower's task goes on, and a write that came after a failed command is
\* in the follower's store once the task has nothing left to do
C29_FailedCommandSkipped ==
    /\ pc["rep"] # "closed"
    /\ LET q == hist.sent["rep"]
           n == Len(q)
       IN  (pc["rep"] = "idle" /\ n > 1 /\ q[n] \in SkipGood /\ q[n - 1] \in SkipBad)
               => /\ q[n][2] \in DOMAIN storage["slave"]
                  /\ storage["slave"][q[n][2]].v = q[n][3]

---------------------------------------------------------------------------
(* A leader that starts from a snapshot file *)

LoadDeadlines == {9, 11, 12, 13}

\* the deadline as read_u64_le reads it
RECURSIVE LE(_, _)
LE(D, n) == IF n = 0 THEN <<>> ELSE <<D % 256>> \o LE(D \div 256, n - 1)
LE8(D) == LE(D, 8)

\* a file: the metadata of the empty snapshot, database 0, the key a without
\* deadline and the key k with the deadline D in milliseconds, the end mark
RdbFile(D) ==
    [k |-> K_k, v |-> V_v, D |-> D,
     bytes |-> SubSeq(empty_rdb_file_bytes, 1, Len(empty_rdb_file_bytes) - 9)
                 \o <<254, 0, 251, 1, 1>>
                 \o <<0, 1>> \o K_a \o <<1>> \o V_1
                 \o <<252>> \o LE8(D) \o <<0, 1>> \o K_k \o <<1>> \o V_v
                 \o <<255, 0, 0, 0, 0, 0, 0, 0, 0>>]

RdbFiles == {RdbFile(D) : D \in LoadDeadlines}

NextLoad ==
    \/ \E file \in RdbFiles : ServerInit(file)
    \/ \E fr \in {<<"get", K_k>>, <<"get", K_a>>, <<"type", K_k>>} :
            hist.boot.on /\ Recv("c1", fr)
    \/ Tick

SpecLoad == Init /\ [][NextLoad]_vars

\* C30: a key loaded from the snapshot with the deadline D is answered Null
\* by a GET at a clock time after D and with its value at a time before D
C30_LoadedDeadline ==
    [][(hist.boot.on /\ ncmd'["c1"] = ncmd["c1"] + 1
            /\ hist'.last["c1"].ok /\ hist'.last["c1"].name = "Get"
            /\ hist'.last["c1"].k = hist.boot.k)
        => /\ now > hist.boot.D => out'["c1"] = Append(out["c1"], Null)
           /\ now < hist.boot.D => out'["c1"] = Append(out["c1"], Simple(hist.boot.v))]_vars

---------------------------------------------------------------------------
(* One writer of a leader that has no follower, until the queue is full *)

FillStart == ChanCap - 2     \* writes answered before the run starts
FillCmds == ChanCap + 1      \* frames the writer sends

\* the writer's frame number n: SET, SET PX and DEL of one key in turn, and
\* for the frames that meet the full queue any of the four writes
FillFrames(n) ==
    IF n < FillStart
    THEN {<<<<"set", K_k, V_1>>, <<"set", K_k, V_v, S_px, <<49, 48, 48>>>>,
            <<"del", K_k>>>>[(n % 3) + 1]}
    ELSE {<<"set", K_k, V_1>>, <<"set", K_k, V_v, S_px, <<49, 48, 48>>>>,
          <<"del", K_k>>, <<"xadd", K_s, S_star, F_f, V_v>>}

\* the leader after the writer's frames number i .. i + n - 1, each
\* read by Server::handle and run to its reply
RECURSIVE Writes(_, _, _)
Writes(st, i, n) ==
    IF n = 0 THEN st
    ELSE IF n = 1
    THEN One({resp_and_replicate(h, "c1") :
                 h \in {handle(st, "c1", One(FillFrames(i)))}})
    ELSE One({Writes(h, i + (n \div 2), n - (n \div 2)) :
                 h \in {Writes(st, i, n \div 2)}})

\* the run starts when the writer has had FillStart writes answered
InitFill == Is(Writes(Start, 0, FillStart))

\* the writer's task reads its next frame
RecvFill(c) ==
    /\ pc[c] = "idle"
    /\ ncmd[c] < FillCmds
    /\ \E raw \in FillFrames(ncmd[c]) : Becomes(handle(S, c, raw))

NextFill ==
    \/ RecvFill("c1")
    \/ Signal("c1")
    \/ Replicate("c1")

\* the runtime runs every task that can take a step
SpecFill ==
    /\ InitFill /\ [][NextFill]_vars
    /\ WF_vars(Signal("c1")) /\ WF_vars(Replicate("c1"))

\* C31: on a leader without followers a write that has been applied goes on
\* to be enqueued and answered, however many writes came before it
C31_WriteAnswered ==
    (pc["c1"] \in {"signal", "repl"}) ~> (pc["c1"] = "idle")

---------------------------------------------------------------------------
(* A writer of the leader and two followers, with a fair scheduler *)

SyncFrames ==
    [c1 |-> {<<"set", K_k, V_1>>, <<"del", K_k>>},
     c2 |-> {PsyncFrame},
     f1 |-> {PsyncFrame}]

NextSync ==
    \/ \E c \in {"c1", "c2", "f1"} : \E fr \in SyncFrames[c] :
            ncmd[c] < ReplCmds /\ Recv(c, fr)
    \/ Replicate("c1")
    \/ \E c \in {"c2", "f1"} : PsyncAttach(c)
    \/ \E c \in {"c2", "f1"} : FanoutLock(c)
    \/ \E c \in {"c2", "f1"} : FanoutSend(c)

\* the runtime runs every task that can take a step
SpecSync ==
    /\ Init /\ [][NextSync]_vars
    /\ WF_vars(Replicate("c1"))
    /\ \A c \in {"c2", "f1"} :
           WF_vars(PsyncAttach(c)) /\ WF_vars(FanoutLock(c)) /\ WF_vars(FanoutSend(c))

\* the follower f has been answered FULLRESYNC and the leader has accepted
\* its write number w after that
AcceptedSince(f, w) ==
    /\ hist.full[f] >= 0
    /\ hist.full[f] < w
    /\ w <= hist.wseq

\* C32: every write the leader accepts after it answered FULLRESYNC to a
\* follower is in the end written to that follower's connection
C32_WriteAfterFullResyncDelivered ==
    \A f \in {"c2", "f1"} : \A w \in 1..ReplCmds :
        AcceptedSince(f, w) ~> (w \in Range(Wids(out[f])))

\* a connection's task is waiting for a mutex: the waiter list
\* (cmd.rs:465), the follower set (cmd.rs:591-595, server.rs:127) or the
\* replication receiver (replication_channel.rs:26)
LockWaits(c) == pc[c] \in {"signal", "repl", "psync", "fanwait"}

\* C36: a task that requests one of the shared mutexes obtains it in the end:
\* no task waits for a mutex for ever
C36_LocksObtained ==
    \A c \in {"c1", "c2", "f1"} : []<>(~LockWaits(c))

---------------------------------------------------------------------------
(* MULTI inside a transaction *)

\* the frames other than MULTI that a connection inside a transaction has
\* sent since the first MULTI of that transaction
QueuedSince(c) ==
    LET q == hist.sent[c]
        T == {i \in 1..Len(q) : q[i][1] \in {"exec", "discard"}}
        j == IF T = {} THEN 0 ELSE CHOOSE i \in T : \A x \in T : x <= i
        M == {i \in (j + 1)..Len(q) : q[i][1] = "multi"}
        m == CHOOSE i \in M : \A x \in M : i <= x
    IN  SelectSeq(SubSeq(q, m + 1, Len(q)), LAMBDA fr : fr[1] # "multi")

\* C33: a MULTI on a connection that is inside a transaction keeps the
\* commands queued so far, and the EXEC that follows runs every command queued
\* since the first MULTI
C33_NestedMultiKeepsQueue ==
    [][\A c \in Conns :
          (queued[c].open /\ ncmd'[c] = ncmd[c] + 1 /\ hist'.last[c].ok)
            => /\ hist'.last[c].name = "Multi" => queued'[c] = queued[c]
               /\ hist'.last[c].name = "Exec"
                     => hist'.ex[c].buf = QueuedSince(c)]_vars

---------------------------------------------------------------------------
(* A writer of a stream with wildcard ids, and a follower *)

WildFrames ==
    [c1 |-> {<<"xadd", K_s, S_star, F_f, V_v>>,
             <<"xadd", K_s, IdStr(11, 0) \o <<Dash, Star>>, F_f, V_v>>},
     f1 |-> {PsyncFrame}]

NextWild ==
    \/ \E c \in {"c1", "f1"} : \E fr \in WildFrames[c] :
            ncmd[c] < ReplCmds /\ Recv(c, fr)
    \/ \E c \in {"c1", "rep"} : Signal(c)
    \/ \E c \in {"c1", "rep"} : Replicate(c)
    \/ PsyncAttach("f1")
    \/ FanoutLock("f1")
    \/ FanoutSend("f1")
    \/ \E n \in 1..ReplCmds : RepRecv(n)
    \/ FollowerSync
    \/ Tick

SpecWild == Init /\ [][NextWild]_vars

\* the ids under which a server stored its entries, in the order of storing
StoredIds(sv) ==
    LET q == SelectSeq(hist.xlog, LAMBDA e : e[1] = sv)
    IN  [i \in 1..Len(q) |-> q[i][3]]

\* C34: when the follower stores the entry of a replicated XADD, it stores it
\* under the id under which the leader stored the entry of that XADD
C34_FollowerStoresLeaderId ==
    [][(pc["rep"] = "idle" /\ rd' > rd /\ Len(hist'.xlog) = Len(hist.xlog) + 1)
        => hist'.xlog[Len(hist'.xlog)][3] = StoredIds("master")[out["f1"][rd + 1].wid]]_vars

---------------------------------------------------------------------------
(* One client of the leader listing the keys, some of them with a ttl *)

ListFrames ==
    { <<"set", K_k, V_v, S_px, V_1>>, <<"set", K_a, V_1>>, <<"get", K_k>>,
      <<"keys", S_star>> }

NextList ==
    \/ \E fr \in ListFrames : Recv("c1", fr)
    \/ Replicate("c1")
    \/ Tick

SpecList == Init /\ [][NextList]_vars

\* C35: every key that KEYS lists is a key for which a GET at the same clock
\* time gives a value
C35_ListedKeysAreLive ==
    [][\A c \in {"c1"} :
          (ncmd'[c] = ncmd[c] + 1 /\ hist'.last[c].ok /\ hist'.last[c].name = "Keys")
            => /\ Len(out'[c]) = Len(out[c]) + 1
               /\ \A k \in out'[c][Len(out'[c])].set :
                      storage_get(storage[Owner(c)], k, now).some]_vars

---------------------------------------------------------------------------
(* One client of the leader that writes and reads, and a follower *)

ReadFrames ==
    { <<"ping">>, <<"echo", K_a>>, <<"keys", S_star>>, <<"info", S_replication>>,
      <<"config", S_get, S_dir>>,
      <<"xrange", K_s, S_minus, S_plus>>, <<"xrange", K_k, S_minus, S_plus>>,
      <<"xread", S_streams, K_k, IdStr(0, 0)>>, GetAckFrame,
      <<"get", K_k>>, <<"get", K_a>>, <<"type", K_k>> }

WriteFrames ==
    { <<"set", K_k, V_v>>, <<"set", K_a, V_1, S_px, V_1>>,
      <<"xadd", K_s, IdStr(1, 1), F_f, V_v>> }

NextRead ==
    \/ \E fr \in ReadFrames \cup WriteFrames : ncmd["c1"] < ReplCmds /\ Recv("c1", fr)
    \/ ncmd["f1"] < 1 /\ Recv("f1", PsyncFrame)
    \/ Signal("c1")
    \/ Replicate("c1")
    \/ PsyncAttach("f1")
    \/ FanoutLock("f1")
    \/ FanoutSend("f1")
    \/ Tick

SpecRead == Init /\ [][NextRead]_vars

\* the key is missing from the string store, or its deadline has not passed
LiveOrMissing(sv, k) ==
    \/ k \notin DOMAIN storage[sv]
    \/ storage[sv][k].exp = NoExp
    \/ now <= storage[sv][k].exp

\* PING, ECHO, KEYS, INFO, CONFIG GET, XRANGE, XREAD without BLOCK, REPLCONF,
\* and GET and TYPE of a key that is missing or has not expired
ReadsOnly(sv, cmd) ==
    \/ cmd.name \in {"Ping", "Echo", "Keys", "Info", "ConfigGet", "Xrange", "Replconf"}
    \/ cmd.name = "Xread" /\ cmd.block < 0
    \/ cmd.name \in {"Get", "Type"} /\ LiveOrMissing(sv, cmd.k)

\* C37: a command that only reads leaves the string store, the streams and
\* the waiter list as they were, and nothing is put on the replication queue
\* or written to a follower
C37_ReadsChangeNothing ==
    [][\A c \in {"c1"} :
          (ncmd'[c] = ncmd[c] + 1 /\ hist'.last[c].ok
                /\ ReadsOnly(Owner(c), hist'.last[c]))
            => /\ storage' = storage /\ streams' = streams /\ blocker' = blocker
               /\ chan' = chan /\ hist'.enq = hist.enq
               /\ \A f \in Conns \ {c} : out'[f] = out[f]]_vars

\* an XRANGE of a missing stream key has been answered on a leader that holds
\* a stream and has a follower attached
C37_Witness ==
    /\ hist.last["c1"].ok /\ hist.last["c1"].name = "Xrange"
    /\ hist.last["c1"].k = K_k
    /\ pc["c1"] = "idle"
    /\ LastOut("c1") = Lit("none")
    /\ K_k \notin DOMAIN streams["master"]
    /\ K_s \in DOMAIN streams["master"]
    /\ "f1" \in attached

---------------------------------------------------------------------------
(* Every step of every connection *)

Next ==
    \/ NextStream
    \/ NextSlave
    \/ NextTxn
    \/ NextRepl
    \/ NextBlock
    \/ NextWait
    \/ NextKeys
    \/ NextTtl
    \/ NextRange
    \/ NextBad
    \/ NextPipe
    \/ NextCodec
    \/ NextPsync
    \/ NextShake
    \/ NextAck
    \/ NextTwo
    \/ NextAdds
    \/ NextSkip
    \/ NextLoad
    \/ NextFill
    \/ NextSync
    \/ NextWild
    \/ NextList
    \/ NextRead
    \/ \E c \in {"c1", "c2"} : XreadRead(c)

Spec == Init /\ [][Next]_vars

====
